---- MODULE Spec2Model ----
(***************************************************************************)
(* A model of the XiaoCaiChat server hub (chat_server.py) and of the       *)
(* receiving side of the chunked file transfer (qt_chat_client.py).        *)
(*                                                                         *)
(* A protocol line is a sequence of string tokens (the words between       *)
(* single spaces); a message text is the sequence of tokens after the      *)
(* command word.  `out` is the sequence of <<socket, line>> writes that the *)
(* step just taken made with success, in the order of the sendall calls; a *)
(* write to a closed socket raises and is swallowed, as every sendall of   *)
(* the server sits in try/except.                                          *)
(***************************************************************************)
EXTENDS Integers, Sequences, FiniteSets, TLC

VARIABLES
    rooms,         \* Hub.rooms: room id -> insertion-ordered <<conn, user>> pairs
    conn_info,     \* Hub.conn_info: conn -> <<room, user>>
    room_members,  \* Hub.room_members: room id -> set of allowed users (the ACL)
    room_names,    \* Hub.room_names: room id -> display name
    avatars,       \* Hub.avatars: user -> avatar file name
    unread,        \* UnreadStore._mem: <<user, conv>> -> counter
    history,       \* the messages table: sequence of [conv, sender, text]
    out,           \* the <<socket, line>> writes of the last step, in order
    closed,        \* per socket: closed on the server side
    avatar_data,   \* Hub.avatar_data: user -> <<file name, mime, base64>>
    secret,        \* CHAT_SECRET of the deployment, or None
    jwt_secret,    \* JWT_SECRET of the deployment, or None
    pc,            \* per handler thread: its position in handle_client
    username,      \* per handler thread: its local `username`
    room,          \* per handler thread: its local `room`
    authed,        \* per handler thread: its local `authed`
    path,          \* per handler thread: the handshake path it took
    avatar_arg,    \* per handler thread: parts[3] of its HELLO, or None
    to_remove,     \* per handler thread: the local list of Hub.kick
    presence,      \* per handler thread: the names list of Hub.broadcast_users;
                   \* per client: the last [SYS] USERS line it has received
    inc_todo,      \* per handler thread: the targets whose counter is still to be raised
    inc_val,       \* per handler thread: the counter value that UnreadStore.inc has read
    nlines,        \* number of lines read so far by all read loops
    last,          \* the last step taken: what was read, by whom
    rx_files,      \* receiver: ChatWindow._rx_files, key -> pending transfer
    part_file,     \* receiver: the bytes of the .part file, or NoFile
    dst_file,      \* receiver: the bytes of the final attachment, or NoFile
    rx_tasks,      \* receiver: the chunk-write tasks handed to the thread pool
    finalizing,    \* receiver: ChatWindow._finalizing_files
    tries,         \* receiver: tries[0] of the timer that _rx_file_end started
    delivered,     \* the channel: which lines of the transfer have been delivered,
                   \* and how many deliveries of each chunk found the transfer pending
    multi,         \* receiver with two transfers of one sender: the pending file
                   \* names in the order of _rx_files, the writes made to each
                   \* .part file, and the lines of each transfer delivered so far
    up,            \* sender: the MultiConnFileUploader of one upload and its window row
    broken,        \* the sockets whose peer is gone: a sendall on them raises
    wire           \* per connection: the texts its handler has read, the lines its
                   \* peer has received, the broadcasts of its handler in flight

hubvars == <<rooms, conn_info, room_members, room_names, avatars, avatar_data, unread, history,
             out, closed>>
thrvars == <<pc, username, room, authed, path, avatar_arg, to_remove, presence>>
incvars == <<inc_todo, inc_val>>
rxvars == <<rx_files, part_file, dst_file, rx_tasks, finalizing, tries, delivered, multi, up>>
vars == <<hubvars, thrvars, incvars, rxvars, secret, jwt_secret, broken, wire, nlines, last>>

---------------------------------------------------------------------------
(* Bounds of the model *)

\* lines read by the read loops of all handlers together
MaxLines == 2

Conns == {"c1", "c2", "c3"}
Users == {"A", "B", "C"}
None == "<None>"
DefaultRoom == "world"
OtherRoom == "general"
RoomIds == {DefaultRoom, OtherRoom}
\* addr[0] of each accepted socket: the user name of an implicit join
Addr(c) == IF c = "c3" THEN "C" ELSE "A"
NumTokens == {"0", "1", "2", "50"}
\* sorted([a, b]) of conv_dm compares strings; the order of the modelled names
Rank(u) ==
    CASE u = "A" -> 1 [] u = "B" -> 2 [] u = "C" -> 3
      [] u = "a" -> 5 [] u = "a&b" -> 6 [] u = "b" -> 7 [] u = "b&c" -> 8 [] u = "c" -> 9
      [] OTHER -> 4
\* a token standing for a payload as long as the persistence ceiling
BigToken == "<262144 chars>"
SizeCeiling == 262144

---------------------------------------------------------------------------
(* Dictionaries *)

Get(f, k, d) == IF k \in DOMAIN f THEN f[k] ELSE d
Put(f, k, v) == [x \in DOMAIN f \cup {k} |-> IF x = k THEN v ELSE f[x]]
Del(f, k) == [x \in DOMAIN f \ {k} |-> f[x]]

\* an insertion-ordered dict conn -> user, as a sequence of pairs
Keys(m) == {m[i][1] : i \in DOMAIN m}
Values(m) == [i \in DOMAIN m |-> m[i][2]]
ValueSet(m) == {m[i][2] : i \in DOMAIN m}
Lookup(m, c) == (CHOOSE i \in DOMAIN m : m[i][1] = c)
MapPut(m, c, u) ==
    IF c \in Keys(m)
    THEN [i \in DOMAIN m |-> IF m[i][1] = c THEN <<c, u>> ELSE m[i]]
    ELSE Append(m, <<c, u>>)
MapDel(m, c) == SelectSeq(m, LAMBDA p : p[1] # c)

StartsWith(text, word) == Len(text) >= 2 /\ text[1] = word

---------------------------------------------------------------------------
(* The Hub's state as one record, so that its operations compose; a step    *)
(* starts with an empty write log                                          *)

HubState ==
    [rooms |-> rooms, conn_info |-> conn_info, room_members |-> room_members,
     room_names |-> room_names, avatars |-> avatars, avatar_data |-> avatar_data,
     unread |-> unread, history |-> history, out |-> <<>>, closed |-> closed,
     broken |-> broken]

SetHub(H) ==
    /\ rooms' = H.rooms
    /\ conn_info' = H.conn_info
    /\ room_members' = H.room_members
    /\ room_names' = H.room_names
    /\ avatars' = H.avatars
    /\ avatar_data' = H.avatar_data
    /\ unread' = H.unread
    /\ history' = H.history
    /\ out' = H.out
    /\ closed' = H.closed

\* conn.sendall(line) inside try/except: nothing is written to a socket that
\* is closed or whose peer is gone
Send(H, c, line) ==
    IF H.closed[c] \/ c \in H.broken THEN H ELSE [H EXCEPT !.out = Append(@, <<c, line>>)]

\* conn.close()
Close(H, c) == [H EXCEPT !.closed[c] = TRUE]

RECURSIVE SendAllUntilFailure(_, _, _)
RECURSIVE SendAll(_, _, _)
\* a loop of writes that the first failing write ends
SendAllUntilFailure(H, cs, line) ==
    IF cs = <<>> \/ H.closed[Head(cs)] \/ Head(cs) \in H.broken THEN H
    ELSE SendAllUntilFailure(Send(H, Head(cs), line), Tail(cs), line)

\* a loop of writes, each inside its own try/except
SendAll(H, cs, line) ==
    IF cs = <<>> THEN H ELSE SendAll(Send(H, Head(cs), line), Tail(cs), line)

Members(H, r) == Get(H.rooms, r, <<>>)
ConnsOf(m) == [i \in DOMAIN m |-> m[i][1]]

\* Hub.users
HubUsers(H, r) == Values(Members(H, r))
UserSet(H, r) == ValueSet(Members(H, r))

\* Hub.broadcast_sys
BroadcastSys(H, r, line) == SendAll(H, ConnsOf(Members(H, r)), line)

UserPart(H, u) == IF Get(H.avatars, u, "") # "" THEN u \o ":" \o H.avatars[u] ELSE u

\* Hub.broadcast_users
BroadcastUsers(H, r) ==
    LET names == HubUsers(H, r)
        parts == [i \in DOMAIN names |-> UserPart(H, names[i])]
    IN  BroadcastSys(H, r, <<"[SYS]", "USERS", r>> \o parts)

---------------------------------------------------------------------------
(* Conversation ids, persistence, unread counters *)

conv_group(r) == "group:" \o r

\* a conv_dm that keeps the order of its arguments
ConvDmUnsorted(a, b) == "dm:" \o a \o "&" \o b

\* conv_dm
conv_dm(a, b) ==
    IF Rank(a) <= Rank(b) THEN "dm:" \o a \o "&" \o b ELSE "dm:" \o b \o "&" \o a

TokLen(t) == IF t = BigToken THEN SizeCeiling ELSE Len(t)
RECURSIVE TextLen(_)
\* len(text): the tokens and the single spaces between them
TextLen(text) ==
    IF text = <<>> THEN 0
    ELSE IF Len(text) = 1 THEN TokLen(text[1])
    ELSE TokLen(text[1]) + 1 + TextLen(Tail(text))

\* save_message
SaveMessage(H, conv, sender, text) ==
    IF StartsWith(text, "FILE_CHUNK") \/ StartsWith(text, "FILE_ACK") THEN H
    ELSE IF TextLen(text) >= SizeCeiling THEN H
    ELSE [H EXCEPT !.history = Append(@, [conv |-> conv, sender |-> sender, text |-> text])]

\* the counters, an insertion-ordered dict <<user, conv>> -> n
UnreadGet(U, u, cv) == IF <<u, cv>> \in Keys(U) THEN U[Lookup(U, <<u, cv>>)][2] ELSE 0

\* UnreadStore.inc
UnreadInc(H, u, cv) == [H EXCEPT !.unread = MapPut(@, <<u, cv>>, UnreadGet(@, u, cv) + 1)]

\* UnreadStore.reset
UnreadReset(H, u, cv) == [H EXCEPT !.unread = MapPut(@, <<u, cv>>, 0)]

\* UnreadStore.all: the <<conv, count>> pairs of one user
UnreadAll(H, u) ==
    LET mine == SelectSeq(H.unread, LAMBDA p : p[1][1] = u)
    IN  [i \in DOMAIN mine |-> <<mine[i][1][2], mine[i][2]>>]

RECURSIVE IncAll(_, _, _)
IncAll(H, us, cv) ==
    IF us = <<>> THEN H ELSE IncAll(UnreadInc(H, Head(us), cv), Tail(us), cv)

---------------------------------------------------------------------------
(* Hub operations *)

\* Hub.add
HubAdd(H, c, u, r) ==
    IF r \in DOMAIN H.room_members /\ u \notin H.room_members[r]
    THEN [ok |-> FALSE, H |-> H]
    ELSE LET H1 == [H EXCEPT !.rooms = Put(@, r, MapPut(Get(@, r, <<>>), c, u)),
                             !.conn_info = Put(@, c, <<r, u>>)]
             av == Get(H1.avatars, u, "")
             H2 == BroadcastSys(H1, r, <<"[SYS]", "JOIN", r, u, av>>)
             H3 == BroadcastUsers(H2, r)
             H4 == BroadcastSys(H3, r, <<"[SYS]", "ROOM_NAME", r, Get(H3.room_names, r, r)>>)
         IN  [ok |-> TRUE, H |-> H4]

\* a remove that forgets the room map: only the reverse index is cleared
HubRemoveIndexOnly(H, c) ==
    IF c \notin DOMAIN H.conn_info THEN H
    ELSE LET r == H.conn_info[c][1]
             u == H.conn_info[c][2]
             H1 == [H EXCEPT !.conn_info = Del(@, c)]
             H2 == BroadcastSys(H1, r, <<"[SYS]", "LEAVE", r, u>>)
         IN  BroadcastUsers(H2, r)

\* Hub.remove
HubRemove(H, c) ==
    IF c \notin DOMAIN H.conn_info THEN H
    ELSE LET r == H.conn_info[c][1]
             u == H.conn_info[c][2]
             H1 == [H EXCEPT !.conn_info = Del(@, c),
                             !.rooms = IF r \in DOMAIN @ THEN Put(@, r, MapDel(@[r], c)) ELSE @]
             H2 == BroadcastSys(H1, r, <<"[SYS]", "LEAVE", r, u>>)
         IN  BroadcastUsers(H2, r)

RoomOrder == <<DefaultRoom, OtherRoom>>

\* the to_remove list of Hub.kick: every connection of the user, in every room
KickList(H, u) ==
    LET of(r) == ConnsOf(SelectSeq(Members(H, r), LAMBDA p : p[2] = u))
    IN  of(RoomOrder[1]) \o of(RoomOrder[2])

\* the body of the loop of Hub.kick
KickOne(H, c) ==
    Close(Send(HubRemove(H, c), c, <<"[SYS]", "KICKED_LOGIN_CONFLICT">>), c)

RECURSIVE KickEach(_, _)
KickEach(H, cs) == IF cs = <<>> THEN H ELSE KickEach(KickOne(H, Head(cs)), Tail(cs))

\* Hub.kick
HubKick(H, u) == KickEach(H, KickList(H, u))

\* Hub.delete_user, step 1: the connections of the user in one room are taken
\* out of the room map and of conn_info, shut down and closed
UserConns(H, r, u) == ConnsOf(SelectSeq(Members(H, r), LAMBDA p : p[2] = u))

DeleteOne(H, r, c) ==
    Close([H EXCEPT !.rooms = Put(@, r, MapDel(@[r], c)), !.conn_info = Del(@, c)], c)

RECURSIVE DeleteEach(_, _, _)
DeleteEach(H, r, cs) ==
    IF cs = <<>> THEN H ELSE DeleteEach(DeleteOne(H, r, Head(cs)), r, Tail(cs))

\* Hub.delete_user: every room map, then the ACLs, then the avatars
HubDeleteUser(H, u) ==
    LET H1 == DeleteEach(H, RoomOrder[1], UserConns(H, RoomOrder[1], u))
        H2 == DeleteEach(H1, RoomOrder[2], UserConns(H1, RoomOrder[2], u))
    IN  [H2 EXCEPT !.room_members = [r \in DOMAIN @ |-> @[r] \ {u}],
                   !.avatars = Del(@, u),
                   !.avatar_data = Del(@, u)]

\* Hub.broadcast_text: the members other than the origin
Targets(H, r, origin) == SelectSeq(Members(H, r), LAMBDA p : p[1] # origin)

\* Hub.broadcast_text up to its loop over store.inc: the writes and save_message
BroadcastSend(H, r, origin, user, text) ==
    LET msg == <<user \o ">">> \o text
        H1 == IF StartsWith(text, "FILE_ACK")
              THEN Send(H, origin, msg)
              ELSE SendAll(H, ConnsOf(Targets(H, r, origin)), msg)
    IN  SaveMessage(H1, conv_group(r), user, text)

\* Hub.broadcast_text
BroadcastText(H, r, origin, user, text) ==
    IncAll(BroadcastSend(H, r, origin, user, text), Values(Targets(H, r, origin)), conv_group(r))

\* a send_dm that resolves its targets without comparing the user name
SendDmToRoom(H, r, origin, origin_user, target_user, text) ==
    LET targets == ConnsOf(SelectSeq(Members(H, r), LAMBDA p : p[1] # origin))
        H1 == SendAll(H, targets, <<"[DM]", "FROM", origin_user>> \o text)
        H2 == Send(H1, origin, <<"[DM]", "TO", target_user>> \o text)
        H3 == SaveMessage(H2, conv_dm(origin_user, target_user), origin_user, text)
    IN  UnreadInc(H3, target_user, conv_dm(origin_user, target_user))

\* Hub.send_dm
SendDm(H, r, origin, origin_user, target_user, text) ==
    LET targets == ConnsOf(SelectSeq(Members(H, r), LAMBDA p : p[2] = target_user))
        H1 == SendAll(H, targets, <<"[DM]", "FROM", origin_user>> \o text)
        H2 == IF StartsWith(text, "FILE_CHUNK") \/ StartsWith(text, "[FILE]")
              THEN H1
              ELSE Send(H1, origin, <<"[DM]", "TO", target_user>> \o text)
        H3 == SaveMessage(H2, conv_dm(origin_user, target_user), origin_user, text)
    IN  UnreadInc(H3, target_user, conv_dm(origin_user, target_user))

\* Hub.set_avatar
SetAvatar(H, r, u, fn) ==
    LET H1 == [H EXCEPT !.avatars = Put(@, u, fn)]
        H2 == BroadcastSys(H1, r, <<"[SYS]", "AVATAR", r, u, fn>>)
    IN  BroadcastUsers(H2, r)

\* Hub.set_avatar_data
SetAvatarData(H, r, u, fn, mime, b64) ==
    LET H1 == [H EXCEPT !.avatars = Put(@, u, fn),
                        !.avatar_data = Put(@, u, <<fn, mime, b64>>)]
        H2 == BroadcastSys(H1, r, <<"[SYS]", "AVATAR", r, u, fn>>)
    IN  BroadcastUsers(H2, r)

---------------------------------------------------------------------------
(* handle_client: parsing *)

Rest(line, n) == SubSeq(line, n, Len(line))

\* parse_seq: <<n, body>>; n is None without an envelope or with a count that is no integer
ParseSeq(line) ==
    IF StartsWith(line, "SEQ")
    THEN [n |-> IF line[2] \in NumTokens THEN line[2] ELSE None, body |-> Rest(line, 3)]
    ELSE [n |-> None, body |-> line]

\* hmac.new(key, msg, sha256): a value that only the same key and message give
Hmac(key, msg) == "hmac(" \o key \o "," \o msg \o ")"

\* try_auth: the authenticated user name, or None
TryAuth(body, sec, jwt, user) ==
    IF jwt # None /\ StartsWith(body, "AUTH_JWT")
    THEN IF Len(body) # 4 THEN None
         ELSE IF body[2] # "HS256" THEN None
         ELSE IF body[4] # Hmac(jwt, body[2] \o "." \o body[3]) THEN None
         ELSE IF body[3] = "" THEN None
         ELSE body[3]
    ELSE IF sec # None /\ StartsWith(body, "AUTH")
    THEN IF Len(body) >= 4 /\ body[4] = Hmac(sec, body[2] \o ":" \o body[3]) THEN body[2]
         ELSE IF body = <<"AUTH", sec>> THEN user
         ELSE None
    ELSE None

\* parse_hist: GROUP, DM, none (not a HIST command) or raise (int() of the count fails)
ParseHist(body) ==
    IF ~StartsWith(body, "HIST") THEN [kind |-> "none"]
    ELSE IF body[2] = "GROUP"
    THEN IF Len(body) >= 3
         THEN IF body[3] \in NumTokens THEN [kind |-> "GROUP", n |-> body[3]]
              ELSE [kind |-> "raise"]
         ELSE [kind |-> "GROUP", n |-> "50"]
    ELSE IF Len(body) >= 3 /\ body[2] = "DM"
    THEN IF Len(body) >= 4
         THEN IF body[4] \in NumTokens THEN [kind |-> "DM", peer |-> body[3], n |-> body[4]]
              ELSE [kind |-> "raise"]
         ELSE [kind |-> "DM", peer |-> body[3], n |-> "50"]
    ELSE [kind |-> "none"]

IntOf(tok) == CASE tok = "0" -> 0 [] tok = "1" -> 1 [] tok = "2" -> 2 [] OTHER -> 50

\* load_recent: the last `limit` records of the conversation, oldest first
LoadRecent(H, conv, limit) ==
    LET rows == SelectSeq(H.history, LAMBDA m : m.conv = conv)
        from == IF Len(rows) > limit THEN Len(rows) - limit + 1 ELSE 1
    IN  SubSeq(rows, from, Len(rows))

RECURSIVE SendEach(_, _, _)
\* one sendall per line of a list, all to the same socket
SendEach(H, c, lines) ==
    IF lines = <<>> THEN H ELSE SendEach(Send(H, c, Head(lines)), c, Tail(lines))

\* the replay of HIST GROUP and HIST DM
SendHistory(H, c, h, user, rm) ==
    LET rows == IF h.kind = "GROUP" THEN LoadRecent(H, conv_group(rm), IntOf(h.n))
                ELSE LoadRecent(H, conv_dm(user, h.peer), IntOf(h.n))
        head == IF h.kind = "GROUP" THEN <<"[SYS]", "HISTORY", "GROUP", rm>>
                ELSE <<"[SYS]", "HISTORY", "DM", h.peer>>
    IN  SendEach(H, c, [i \in DOMAIN rows |-> head \o <<rows[i].sender, "ts">> \o rows[i].text])

\* the reply to UNREAD
SendUnread(H, c, user) ==
    LET all == UnreadAll(H, user)
    IN  SendEach(H, c, [i \in DOMAIN all |-> <<"[SYS]", "UNREAD", all[i][1], ToString(all[i][2])>>])

\* the reply to AVATAR_REQ
SendAvatarData(H, c, rm, req_user) ==
    IF req_user \in DOMAIN H.avatar_data
    THEN Send(H, c, <<"[SYS]", "AVATAR_DATA", rm, req_user>> \o H.avatar_data[req_user])
    ELSE H

Ack(H, c, seq) == IF seq # None THEN Send(H, c, <<"[ACK]", seq>>) ELSE H

\* the last branch of the dispatch: MSG, the avatar commands that are skipped, any other body
Routed(H, c, body, user, rm) ==
    IF StartsWith(body, "MSG") THEN BroadcastText(H, rm, c, user, Tail(body))
    ELSE IF StartsWith(body, "AVATAR_UPLOAD") \/ StartsWith(body, "AVATAR_REQ") THEN H
    ELSE BroadcastText(H, rm, c, user, body)

\* parse_dm and what follows it
DmOrRouted(H, c, body, user, rm) ==
    IF Len(body) >= 3 /\ body[1] = "DM" /\ body[2] # ""
    THEN SendDm(H, rm, c, user, body[2], Rest(body, 3))
    ELSE Routed(H, c, body, user, rm)

\* parse_read and what follows it; with_avatar: the loop of the implicit join
\* also parses AVATAR <file>
ReadOrLater(H, c, body, user, rm, with_avatar) ==
    IF StartsWith(body, "READ") /\ body[2] = "GROUP"
    THEN UnreadReset(H, user, conv_group(rm))
    ELSE IF StartsWith(body, "READ") /\ Len(body) >= 3 /\ body[2] = "DM"
    THEN UnreadReset(H, user, conv_dm(user, body[3]))
    ELSE IF with_avatar /\ StartsWith(body, "AVATAR")
    THEN SetAvatar(H, rm, user, body[2])
    ELSE DmOrRouted(H, c, body, user, rm)

---------------------------------------------------------------------------
(* handle_client: one line of a read loop.  The result is the Hub, the     *)
(* handler's `username` and `authed`, and whether an exception left the    *)
(* loop.                                                                   *)

Res(H, user, au, raised) == [H |-> H, user |-> user, authed |-> au, raised |-> raised]

Pong(H, c, body) == Send(H, c, <<"PONG">> \o Tail(body))

\* the read loop after a HELLO, from the history replay on
MainDispatch(H, c, seq, body, user, rm) ==
    LET h == ParseHist(body)
    IN  IF h.kind = "raise" THEN Res(H, user, TRUE, TRUE)
        ELSE IF h.kind # "none" THEN Res(Ack(SendHistory(H, c, h, user, rm), c, seq), user, TRUE, FALSE)
        ELSE IF body = <<"UNREAD">> THEN Res(Ack(SendUnread(H, c, user), c, seq), user, TRUE, FALSE)
        ELSE Res(Ack(ReadOrLater(H, c, body, user, rm, FALSE), c, seq), user, TRUE, FALSE)

\* the body of the read loop after a HELLO
MainLine(H, c, line, user, rm, au, sec, jwt) ==
    LET seq == ParseSeq(line).n
        body == ParseSeq(line).body
        a == TryAuth(body, sec, jwt, user)
    IN  IF line = <<>> THEN Res(H, user, au, FALSE)
        ELSE IF StartsWith(body, "PING") THEN Res(Pong(Pong(H, c, body), c, body), user, au, FALSE)
        ELSE IF ~au /\ a = None THEN Res(Ack(H, c, seq), user, au, FALSE)
        ELSE MainDispatch(H, c, seq, body, IF au THEN user ELSE a, rm)

\* the avatar upload, the avatar request and UNREAD, as the implicit join parses them
AvatarOrUnread(H, c, body, user, rm) ==
    IF StartsWith(body, "AVATAR_UPLOAD") /\ Len(body) >= 4
    THEN [hit |-> TRUE, H |-> SetAvatarData(H, rm, user, body[2], body[3], Rest(body, 4))]
    ELSE IF StartsWith(body, "AVATAR_REQ") /\ body[2] # ""
    THEN [hit |-> TRUE, H |-> SendAvatarData(H, c, rm, body[2])]
    ELSE IF body = <<"UNREAD">>
    THEN [hit |-> TRUE, H |-> SendUnread(H, c, user)]
    ELSE [hit |-> FALSE, H |-> H]

\* the read loop of the implicit join, from the history replay on
ImplicitDispatch(H, c, seq, body, user, rm) ==
    LET h == ParseHist(body)
        av == AvatarOrUnread(H, c, body, user, rm)
    IN  IF h.kind = "raise" THEN Res(H, user, TRUE, TRUE)
        ELSE IF h.kind # "none" THEN Res(Ack(SendHistory(H, c, h, user, rm), c, seq), user, TRUE, FALSE)
        ELSE IF av.hit THEN Res(Ack(av.H, c, seq), user, TRUE, FALSE)
        ELSE Res(Ack(ReadOrLater(H, c, body, user, rm, TRUE), c, seq), user, TRUE, FALSE)

\* the body of the read loop of the implicit join
ImplicitLine(H, c, line, user, rm, au, sec, jwt) ==
    LET seq == ParseSeq(line).n
        body == ParseSeq(line).body
        a == TryAuth(body, sec, jwt, user)
    IN  IF line = <<>> THEN Res(H, user, au, FALSE)
        ELSE IF StartsWith(body, "PING") THEN Res(Pong(H, c, body), user, au, FALSE)
        ELSE IF ~au /\ a = None THEN Res(Ack(H, c, seq), user, au, FALSE)
        ELSE ImplicitDispatch(H, c, seq, body, IF au THEN user ELSE a, rm)

\* the first line of the implicit join when do_process is true: the history
\* replay, the avatar upload, the avatar request and UNREAD; nothing else, no ACK
FirstProcessed(H, c, body, user, rm) ==
    LET h == ParseHist(body)
    IN  IF h.kind = "raise" THEN Res(H, user, TRUE, TRUE)
        ELSE IF h.kind # "none" THEN Res(SendHistory(H, c, h, user, rm), user, TRUE, FALSE)
        ELSE Res(AvatarOrUnread(H, c, body, user, rm).H, user, TRUE, FALSE)

\* the first line of the implicit join
FirstLine(H, c, text, user, rm, au, sec, jwt) ==
    LET seq == ParseSeq(text).n
        body == ParseSeq(text).body
        a == TryAuth(body, sec, jwt, user)
    IN  IF text = <<>> THEN Res(H, user, au, FALSE)
        ELSE IF StartsWith(body, "PING") THEN Res(Pong(H, c, body), user, au, FALSE)
        ELSE IF ~au /\ a = None
        THEN \* do_process is false: the ACK, then the else branch of `if do_process`
             Res(ReadOrLater(Ack(H, c, seq), c, body, user, rm, TRUE), user, au, FALSE)
        ELSE FirstProcessed(H, c, body, IF au THEN user ELSE a, rm)

---------------------------------------------------------------------------
(* handle_client: the handshake *)

IsHello(first) == StartsWith(first, "HELLO")
HelloUser(c, first) == IF IsHello(first) /\ first[2] # "" THEN first[2] ELSE Addr(c)
HelloRoom(first) == IF IsHello(first) /\ Len(first) >= 3 THEN first[3] ELSE DefaultRoom
HelloAvatar(first) == IF IsHello(first) /\ Len(first) >= 4 THEN first[4] ELSE None

\* a handshake that registers the new connection before it evicts the old one
AdmitAddFirst(H, c, u, r) ==
    LET A == HubAdd(H, c, u, r)
    IN  IF A.ok /\ u \in UserSet(H, r) THEN [ok |-> TRUE, H |-> HubKick(A.H, u)] ELSE A

\* `if username in hub.users(room): hub.kick(username)` and then hub.add
Admit(H, c, u, r) ==
    HubAdd(IF u \in UserSet(H, r) THEN HubKick(H, u) ELSE H, c, u, r)

\* a finally clause that only closes the socket
FinallyCloseOnly(H, c) == Close(H, c)

\* the finally clause: hub.remove(conn) and conn.close()
Finally(H, c) == Close(HubRemove(H, c), c)

\* the reply to a join that hub.add refused, and the return through finally
Reject(H, c, r) ==
    Finally(Close(Send(H, c, <<"[SYS]", "ERROR", "Permission", "denied", "for", "room", r>>), c), c)

\* after a HELLO is admitted: the avatar of the HELLO, then the second hub.add
AfterHello(H, c, u, r, av) ==
    HubAdd(IF av # None THEN SetAvatar(H, r, u, av) ELSE H, c, u, r).H

\* handle_client up to its read loop
Handshake(H, c, first, au, sec, jwt) ==
    LET u == HelloUser(c, first)
        r == HelloRoom(first)
        A == Admit(H, c, u, r)
    IN  IF ~A.ok THEN Res(Reject(A.H, c, r), u, au, TRUE)
        ELSE IF IsHello(first) THEN Res(AfterHello(A.H, c, u, r, HelloAvatar(first)), u, au, FALSE)
        ELSE LET R == FirstLine(A.H, c, first, u, r, au, sec, jwt)
             IN  IF R.raised THEN [R EXCEPT !.H = Finally(@, c)] ELSE R

---------------------------------------------------------------------------
(* The receiving side of a file transfer (qt_chat_client.py).  A file is   *)
(* its sequence of bytes; a write past the end of a file fills the gap     *)
(* with zero bytes.                                                        *)

\* each offset is delivered at most this many times
MaxDeliveries == 2
\* max_tries of the timer of _rx_file_end (200 in the program)
MaxTries == 2

NoFile == <<-1>>
RxKey == <<"dm:A", "A", "f.bin">>

\* the chunks the sender cuts the source file into
SrcChunks == <<[off |-> 0, data |-> <<104, 105>>], [off |-> 2, data |-> <<33, 10, 7, 9>>]>>
SrcFile == SrcChunks[1].data \o SrcChunks[2].data

Max(a, b) == IF a >= b THEN a ELSE b

\* base64: the index of '=' after the 64 indices of the alphabet
Pad == 64

RECURSIVE B64Encode(_)
\* base64.b64encode, as the sequence of alphabet indices
B64Encode(bytes) ==
    IF bytes = <<>> THEN <<>>
    ELSE IF Len(bytes) = 1
    THEN LET n == bytes[1] * 65536
         IN  <<n \div 262144, (n \div 4096) % 64, Pad, Pad>>
    ELSE IF Len(bytes) = 2
    THEN LET n == bytes[1] * 65536 + bytes[2] * 256
         IN  <<n \div 262144, (n \div 4096) % 64, (n \div 64) % 64, Pad>>
    ELSE LET n == bytes[1] * 65536 + bytes[2] * 256 + bytes[3]
         IN  <<n \div 262144, (n \div 4096) % 64, (n \div 64) % 64, n % 64>>
               \o B64Encode(SubSeq(bytes, 4, Len(bytes)))

Sextet(x) == IF x = Pad THEN 0 ELSE x

RECURSIVE B64Decode(_)
\* base64.b64decode; a payload that is no whole number of quads decodes to b""
B64Decode(payload) ==
    IF payload = <<>> THEN <<>>
    ELSE IF Len(payload) < 4 THEN <<>>
    ELSE LET n == Sextet(payload[1]) * 262144 + Sextet(payload[2]) * 4096
                    + Sextet(payload[3]) * 64 + Sextet(payload[4])
             three == <<n \div 65536, (n \div 256) % 256, n % 256>>
             pads == Cardinality({i \in 3..4 : payload[i] = Pad})
         IN  SubSeq(three, 1, 3 - pads) \o B64Decode(SubSeq(payload, 5, Len(payload)))

\* f.seek(off); f.write(data) on a file opened "r+b"
WriteAt(file, off, data) ==
    [i \in 1..Max(Len(file), off + Len(data)) |->
        IF i > off /\ i <= off + Len(data) THEN data[i - off]
        ELSE IF i <= Len(file) THEN file[i]
        ELSE 0]

\* f.write(data) on a file opened "ab": always at the end of the file
WriteEnd(file, data) == file \o data

\* the receiver's state as one record, so that its operations compose
RxState ==
    [rx_files |-> rx_files, part_file |-> part_file, dst_file |-> dst_file,
     rx_tasks |-> rx_tasks, finalizing |-> finalizing, tries |-> tries]

SetRx(S) ==
    /\ rx_files' = S.rx_files
    /\ part_file' = S.part_file
    /\ dst_file' = S.dst_file
    /\ rx_tasks' = S.rx_tasks
    /\ finalizing' = S.finalizing
    /\ tries' = S.tries

RECURSIVE PrefixFrom(_, _)
\* the walk of _contiguous_prefix_size over the recorded chunks
PrefixFrom(chunks, off) ==
    IF off \in DOMAIN chunks /\ chunks[off] > 0 THEN PrefixFrom(chunks, off + chunks[off]) ELSE off

\* _contiguous_prefix_size
ContiguousPrefixSize(S) ==
    LET chunks == S.rx_files[RxKey].chunks
        file_sz == IF S.part_file = NoFile THEN 0 ELSE Len(S.part_file)
    IN  IF DOMAIN chunks = {} THEN file_sz ELSE Max(PrefixFrom(chunks, 0), file_sz)

\* shutil.move(part, dst): a rename, so a handle that is open on the part
\* file now writes to the final file; then _do_update_and_cleanup
MoveAndCleanup(S) ==
    [S EXCEPT !.dst_file = S.part_file,
              !.part_file = NoFile,
              !.rx_tasks = {IF t.stage = "opened" /\ t.file = "part" THEN [t EXCEPT !.file = "dst"]
                            ELSE IF t.stage = "opened" THEN [t EXCEPT !.file = "gone"]
                            ELSE t : t \in S.rx_tasks},
              !.finalizing = @ \ {RxKey},
              !.rx_files = Del(@, RxKey)]

\* _attempt_finalize: [done, S]
AttemptFinalize(S) ==
    LET total == S.rx_files[RxKey].total
        part_sz == IF S.part_file = NoFile THEN 0 ELSE Len(S.part_file)
    IN  IF S.part_file # NoFile
           /\ (total <= 0 \/ ContiguousPrefixSize(S) >= total \/ part_sz >= total)
        THEN MoveAndCleanup(S)
        ELSE S

\* _rx_file_end; when the first attempt fails the timer of _tick goes on trying
RxFileEnd(S) ==
    IF RxKey \notin DOMAIN S.rx_files THEN S
    ELSE IF RxKey \in S.finalizing THEN S
    ELSE AttemptFinalize([S EXCEPT !.finalizing = @ \cup {RxKey}, !.tries = 0])

\* _tick: one more attempt; a failed attempt is counted
TickTry(S) ==
    LET S1 == AttemptFinalize(S)
    IN  IF RxKey \notin DOMAIN S1.rx_files THEN S1 ELSE [S1 EXCEPT !.tries = @ + 1]

\* _rx_file_begin
RxFileBegin(S, total) ==
    [S EXCEPT !.part_file = <<>>,
              !.rx_files = Put(@, RxKey, [total |-> Max(0, total), chunks |-> <<>>, md5 |-> None])]

\* the hash that FILE_META and FILE_QUERY of the transfer carry
Md5 == "md5"
\* the receiver's own connection to the server
RxSock == "rx"

\* on_received, `[DM] FROM <sender> FILE_META ...` while the attachment is not
\* there: a stale .part file of no pending transfer is removed, the entry is
\* created or its total and md5 are overwritten
RxFileMeta(S, total, md5) ==
    IF S.dst_file # NoFile THEN S
    ELSE IF RxKey \notin DOMAIN S.rx_files
    THEN [S EXCEPT !.part_file = NoFile,
                   !.rx_files = Put(@, RxKey, [total |-> Max(0, total), chunks |-> <<>>,
                                              md5 |-> md5])]
    ELSE [S EXCEPT !.rx_files[RxKey].total = Max(0, total), !.rx_files[RxKey].md5 = md5]

\* the answer to FILE_META: FILE_HAVE <md5> <total> COMPLETE, or the size of
\* the .part file with PARTIAL
MetaReply(S, total, md5) ==
    IF S.dst_file # NoFile
    THEN <<<<RxSock, <<"DM", RxKey[2], "FILE_HAVE", md5, total, "COMPLETE">>>>>>
    ELSE LET S1 == RxFileMeta(S, total, md5)
             written == IF S1.part_file = NoFile THEN 0 ELSE Len(S1.part_file)
         IN  <<<<RxSock, <<"DM", RxKey[2], "FILE_HAVE", md5, written, "PARTIAL">>>>>>

\* the answer to FILE_QUERY
QueryReply(md5) == <<<<RxSock, <<"DM", RxKey[2], "FILE_HAVE", md5, 0, "PARTIAL">>>>>>

\* _Task.run after the write: `if md5 and wrote > 0` it sends
\* DM <sender> FILE_ACK <md5> <off> <wrote>, with the md5 of the pending entry
TaskAck(S, t) ==
    LET md5 == IF RxKey \in DOMAIN S.rx_files THEN S.rx_files[RxKey].md5 ELSE None
        wrote == Len(B64Decode(t.payload))
    IN  IF md5 # None /\ wrote > 0
        THEN <<<<RxSock, <<"DM", RxKey[2], "FILE_ACK", md5, Max(0, t.off), Max(0, wrote)>>>>>>
        ELSE <<>>

\* _tick after a failed attempt: `if md5 and cur > 0` it reports the prefix
TickHave(S) ==
    LET S1 == AttemptFinalize(S)
        md5 == S.rx_files[RxKey].md5
    IN  IF RxKey \in DOMAIN S1.rx_files /\ md5 # None /\ ContiguousPrefixSize(S1) > 0
        THEN <<<<RxSock, <<"DM", RxKey[2], "FILE_HAVE", md5, ContiguousPrefixSize(S1),
                           "PARTIAL">>>>>>
        ELSE <<>>

\* _rx_file_chunk and _rx_write_chunk_async: a task for the thread pool
RxFileChunk(S, off, payload, n) ==
    IF RxKey \notin DOMAIN S.rx_files THEN S
    ELSE [S EXCEPT !.rx_tasks = @ \cup {[off |-> Max(0, off), payload |-> payload, n |-> n,
                                          total |-> S.rx_files[RxKey].total,
                                          stage |-> "queued", mode |-> None, file |-> None]}]

\* _Task.run from `if not os.path.isfile(self.path)` to `with open(self.path, mode)`:
\* a missing part file is created empty, the size decides the mode
TaskCreateOpen(S, t) ==
    LET part == IF S.part_file = NoFile THEN <<>> ELSE S.part_file
        mode == IF t.off = Len(part) THEN "ab" ELSE "r+b"
    IN  [S EXCEPT !.part_file = part,
                  !.rx_tasks = (@ \ {t}) \cup {[t EXCEPT !.stage = "opened", !.mode = mode,
                                                         !.file = "part"]}]

\* _Task.run up to `with open(self.path, mode)`
TaskOpen(S, t) ==
    IF RxKey \notin DOMAIN S.rx_files THEN [S EXCEPT !.rx_tasks = @ \ {t}]
    ELSE TaskCreateOpen(S, t)

\* _Task.run, its first statement alone: `if key not in self.owner._rx_files: return`
TaskCheck(S, t) ==
    IF RxKey \notin DOMAIN S.rx_files THEN [S EXCEPT !.rx_tasks = @ \ {t}]
    ELSE [S EXCEPT !.rx_tasks = (@ \ {t}) \cup {[t EXCEPT !.stage = "checked"]}]

\* on_received, `FILE_CANCEL <name>`: os.remove(part), del self._rx_files[k]; a
\* handle that is open on the removed file writes to no file any more
RxFileCancel(S) ==
    [S EXCEPT !.part_file = NoFile,
              !.rx_tasks = {IF t.stage = "opened" /\ t.file = "part" THEN [t EXCEPT !.file = "gone"]
                            ELSE t : t \in S.rx_tasks},
              !.rx_files = Del(@, RxKey)]

Written(file, t) ==
    IF t.mode = "ab" THEN WriteEnd(file, B64Decode(t.payload))
    ELSE WriteAt(file, t.off, B64Decode(t.payload))

\* _Task.run from f.write(data) on: the write, chunks[off] = len(data), and
\* _rx_file_end once the part file has reached the announced size
TaskWrite(S, t) ==
    LET S1 == [S EXCEPT !.part_file = IF t.file = "part" THEN Written(@, t) ELSE @,
                        !.dst_file = IF t.file = "dst" THEN Written(@, t) ELSE @,
                        !.rx_tasks = @ \ {t}]
        S2 == IF RxKey \in DOMAIN S1.rx_files
              THEN [S1 EXCEPT !.rx_files[RxKey].chunks = Put(@, t.off, Len(B64Decode(t.payload)))]
              ELSE S1
        sz == IF S2.part_file = NoFile THEN 0 ELSE Len(S2.part_file)
    IN  IF t.total > 0 /\ sz >= t.total THEN RxFileEnd(S2) ELSE S2

---------------------------------------------------------------------------
(* Two transfers of one sender in one conversation.  A FILE_CHUNK line     *)
(* carries an offset and the bytes, no file name; here every chunk is      *)
(* tagged with the file it was cut from, and every write is recorded with  *)
(* the .part file it went to.                                              *)

MultiFiles == {"f.bin", "g.bin"}
\* the chunk offsets of either file; a write at the last one makes the part
\* file as long as the announced total
MultiOffsets == {0, 2}
MultiLast == CHOOSE o \in MultiOffsets : \A p \in MultiOffsets : p <= o

InitMulti ==
    [keys |-> <<>>, sunk |-> {},
     begun |-> [f \in MultiFiles |-> FALSE], ended |-> [f \in MultiFiles |-> FALSE],
     count |-> [f \in MultiFiles |-> [o \in MultiOffsets |-> 0]]]

\* ks[-1] of the keys of _rx_files for this conversation and sender
LastKey(M) == IF M.keys = <<>> THEN None ELSE M.keys[Len(M.keys)]

\* del self._rx_files[key] of _do_update_and_cleanup
DropKey(M, k) == [M EXCEPT !.keys = SelectSeq(@, LAMBDA x : x # k)]

\* _rx_file_begin: the part file is truncated, the entry is assigned; a new
\* key comes last in the dict, an old key keeps its place
MultiBegin(M, fn) ==
    [M EXCEPT !.keys = IF \E i \in DOMAIN @ : @[i] = fn THEN @ ELSE Append(@, fn),
              !.sunk = {w \in @ : w.sink # fn}]

\* on_received FILE_CHUNK: the chunk goes to the transfer of ks[-1]; the task
\* writes it into that part file and calls _rx_file_end once the file has
\* the announced size, which finalizes the transfer
MultiChunk(M, src, off) ==
    LET k == LastKey(M)
    IN  IF k = None THEN M
        ELSE LET M1 == [M EXCEPT !.sunk = @ \cup {[sink |-> k, src |-> src, off |-> off]}]
             IN  IF off = MultiLast THEN DropKey(M1, k) ELSE M1

\* on_received FILE_END: _rx_file_end for the transfer of ks[-1]; it is
\* finalized when its part file has the announced size
MultiEnd(M) ==
    LET k == LastKey(M)
    IN  IF k # None /\ (\E w \in M.sunk : w.sink = k /\ w.off = MultiLast) THEN DropKey(M, k)
        ELSE M

---------------------------------------------------------------------------
(* The sending side of a file transfer (qt_chat_client.py): one            *)
(* MultiConnFileUploader, its FileChunkSender threads, and the row of the  *)
(* window that shows the upload.                                           *)

\* size of the uploaded file
UpTotal == 3
\* calls of note_ack during one upload
MaxAcks == 2

UpChunk == 2
ConnCount == 2
MaxResendRounds == 2
Me == "A"
Cancelled == "cancelled"

\* list(range(start_off, total, chunk_size))
RangeSet(start_off, total) == {o \in start_off..(total - 1) : (o - start_off) % UpChunk = 0}

RECURSIVE Sorted(_)
\* sorted(list(S))
Sorted(S) ==
    IF S = {} THEN <<>>
    ELSE LET m == CHOOSE x \in S : \A y \in S : x <= y
         IN  <<m>> \o Sorted(S \ {m})

RECURSIVE Group(_, _, _, _)
\* groups[i % len(groups)].append(off): the offsets of the list that go to
\* socket i of n groups
Group(n, offs, i, k) ==
    IF k > Len(offs) THEN <<>>
    ELSE (IF (k - 1) % n = i - 1 THEN <<offs[k]>> ELSE <<>>) \o Group(n, offs, i, k + 1)

InitUp ==
    [started |-> FALSE, registered |-> FALSE, peer |-> None, have |-> FALSE,
     canceled |-> FALSE, resume_written |-> 0, offsets |-> {}, acked |-> {},
     resend_rounds |-> 0, pending |-> 0, threads |-> <<>>, finq |-> 0,
     sent |-> {}, finished |-> <<>>, row |-> None, notice |-> None,
     inbox |-> {}, replied |-> {}, nacks |-> 0,
     nsocks |-> ConnCount, closed |-> FALSE, cancelling |-> FALSE]

\* sock.sendall(line) on socket i; it raises, and is swallowed, once cancel has
\* closed the sockets; a socket that could not be opened is not in _socks.  The lines sent are kept with the socket and the resend
\* round they were sent in, and FILE_END with the number of times it was sent.
UpSend(U, i, line) ==
    IF U.closed \/ i \notin 1..U.nsocks THEN U
    ELSE LET n == Cardinality({m \in U.sent : m.line = line}) + 1
         IN  [U EXCEPT !.sent = @ \cup {[sock |-> i, line |-> line, round |-> U.resend_rounds,
                                          n |-> IF line = <<"FILE_END">> THEN n ELSE 1]}]

\* one FileChunkSender per socket, then self._pending = len(threads)
StartThreads(U, offs) ==
    [U EXCEPT !.threads = [i \in 1..U.nsocks |->
                              [todo |-> Group(Max(1, U.nsocks), offs, i, 1), alive |-> TRUE,
                               stage |-> "top"]],
              !.pending = U.nsocks]

\* finished.emit(ok, err) and the window's _on_finished
EmitFinished(U, ok, err) ==
    [U EXCEPT !.finished = Append(@, <<ok, err>>),
              !.row = IF ok THEN "complete" ELSE @,
              !.notice = IF ok THEN @ ELSE err,
              !.registered = FALSE]

\* _missing_offsets
MissingOffsets(U) == Sorted(U.offsets \ U.acked)

RECURSIVE MaybeFinalizeOrResend(_)
RECURSIVE StartResendRound(_, _)
\* _start_resend_round
StartResendRound(U, offs) ==
    IF offs = <<>> THEN MaybeFinalizeOrResend(U) ELSE StartThreads(U, offs)

\* a _maybe_finalize_or_resend that allows one round more
MaybeFinalizeThreeRounds(U) ==
    IF MissingOffsets(U) # <<>> /\ U.resend_rounds <= MaxResendRounds
    THEN StartResendRound([U EXCEPT !.resend_rounds = @ + 1], MissingOffsets(U))
    ELSE EmitFinished(UpSend(U, 1, <<"FILE_END">>), TRUE, "")

\* _maybe_finalize_or_resend
MaybeFinalizeOrResend(U) ==
    IF MissingOffsets(U) # <<>> /\ U.resend_rounds < MaxResendRounds
    THEN StartResendRound([U EXCEPT !.resend_rounds = @ + 1], MissingOffsets(U))
    ELSE EmitFinished(UpSend(U, 1, <<"FILE_END">>), TRUE, "")

\* MultiConnFileUploader.start, after the window has put the worker in upload_workers
UpStart(U, peer, have) ==
    LET U1 == [U EXCEPT !.started = TRUE, !.registered = TRUE, !.peer = peer, !.have = have,
                        !.row = "uploading"]
        U2 == UpSend(U1, 1, <<"FILE_META", "f.bin", "md5">>)
        U3 == UpSend(U2, 1, <<"FILE_QUERY", "md5">>)
        U4 == UpSend(U3, 1, <<"FILE_BEGIN", "f.bin">>)
        offs == RangeSet(Max(0, U.resume_written), UpTotal)
    IN  StartThreads([U4 EXCEPT !.offsets = offs, !.acked = {}], Sorted(offs))

\* note_ack
NoteAck(U, off) ==
    IF U.canceled THEN U
    ELSE LET U1 == [U EXCEPT !.acked = @ \cup {Max(0, off)}]
         IN  IF U1.pending <= 0 THEN MaybeFinalizeOrResend(U1) ELSE U1

\* _on_piece_finished
OnPieceFinished(U) ==
    LET U1 == [U EXCEPT !.pending = @ - 1]
    IN  IF U1.pending <= 0
        THEN IF U1.canceled THEN EmitFinished(U1, FALSE, Cancelled) ELSE MaybeFinalizeOrResend(U1)
        ELSE U1

\* cancel: the flag the chunk threads poll; the sockets are closed once they have stopped
UpCancel(U) == [U EXCEPT !.canceled = TRUE, !.closed = TRUE]

\* on_received: a FILE_HAVE or FILE_ACK line of the peer reaches the window.  A
\* line that comes as `[DM] FROM <peer> ...` is dropped; only the echo
\* `[DM] TO <me> ...` is looked up in upload_workers.
UpDispatch(U, m) ==
    IF m.form = "from" THEN U
    ELSE IF ~U.registered THEN U
    ELSE IF m.kind = "ack" THEN NoteAck(U, m.off)
    ELSE IF m.status = "COMPLETE" THEN [UpCancel(U) EXCEPT !.row = "complete"]
    ELSE [U EXCEPT !.resume_written = Max(0, m.off)]

\* the forms in which the server routes a DM of the peer back to the uploading
\* user: `[DM] FROM` to the connections of the target and `[DM] TO` to the origin
Forms(peer) == IF peer = Me THEN {"from", "to"} ELSE {"from"}

\* the peer's window answers FILE_META or FILE_QUERY with FILE_HAVE
PeerHave(U, q) ==
    LET status == IF q = "FILE_META" /\ U.have THEN "COMPLETE" ELSE "PARTIAL"
        off == IF status = "COMPLETE" THEN UpTotal ELSE 0
    IN  [U EXCEPT !.replied = @ \cup {q},
                  !.inbox = @ \cup {[form |-> f, kind |-> "have", status |-> status, off |-> off]
                                     : f \in Forms(U.peer)}]

\* the peer's chunk task answers a written chunk with FILE_ACK
PeerAck(U, off) ==
    [U EXCEPT !.nacks = @ + 1,
              !.inbox = @ \cup {[form |-> f, kind |-> "ack", status |-> None, off |-> off]
                                 : f \in Forms(U.peer)}]

\* MultiConnFileUploader.start when only n of the connections could be opened
UpStartWith(U, peer, have, n) == UpStart([U EXCEPT !.nsocks = n], peer, have)

\* FileChunkSender.run, the top of the loop: the thread polls the flag
ChunkTop(U, i) ==
    LET t == U.threads[i]
    IN  IF U.canceled \/ t.todo = <<>>
        THEN [U EXCEPT !.threads[i].alive = FALSE, !.finq = @ + 1]
        ELSE [U EXCEPT !.threads[i].stage = "send"]

\* FileChunkSender.run, the body of the loop: read and sendall; when sendall
\* raises the thread emits finished(False, err) and returns
ChunkSend(U, i, raises) ==
    LET t == U.threads[i]
    IN  IF raises \/ U.closed
        THEN [U EXCEPT !.threads[i].alive = FALSE, !.finq = @ + 1]
        ELSE [UpSend(U, i, <<"FILE_CHUNK", t.todo[1]>>) EXCEPT !.threads[i].todo = Tail(@),
                                                                 !.threads[i].stage = "top"]

\* FileChunkSender.run: one turn of the loop over self.chunks, or its end
ChunkTurn(U, i) ==
    LET t == U.threads[i]
    IN  IF U.canceled \/ t.todo = <<>>
        THEN [U EXCEPT !.threads[i].alive = FALSE, !.finq = @ + 1]
        ELSE [UpSend(U, i, <<"FILE_CHUNK", t.todo[1]>>) EXCEPT !.threads[i].todo = Tail(@)]

---------------------------------------------------------------------------
(* State machine *)

NotRead == -1

Event(op, c, line, kicked) == [op |-> op, c |-> c, line |-> line, kicked |-> kicked]

\* no thread has taken a names list, no client has received a USERS line
InitPresence ==
    [names |-> [c \in Conns |-> <<>>], got |-> [c \in Conns |-> [any |-> FALSE, parts |-> <<>>]]]

InitWireLog ==
    [read |-> [c \in Conns |-> <<>>], got |-> [c \in Conns |-> <<>>],
     flight |-> [c \in Conns |-> <<>>]]

InitHub ==
    /\ rooms = (DefaultRoom :> <<>>)
    /\ conn_info = <<>>
    /\ room_members = <<>>
    /\ room_names = (DefaultRoom :> DefaultRoom)
    /\ avatars = <<>>
    /\ avatar_data = <<>>
    /\ unread = <<>>
    /\ history = <<>>
    /\ out = <<>>
    /\ closed = [c \in Conns |-> FALSE]
    /\ broken = {}
    /\ wire = InitWireLog

InitThreads ==
    /\ pc = [c \in Conns |-> "new"]
    /\ username = [c \in Conns |-> Addr(c)]
    /\ room = [c \in Conns |-> DefaultRoom]
    /\ authed = [c \in Conns |-> secret = None /\ jwt_secret = None]
    /\ path = [c \in Conns |-> None]
    /\ avatar_arg = [c \in Conns |-> None]
    /\ to_remove = [c \in Conns |-> <<>>]
    /\ presence = InitPresence
    /\ inc_todo = [c \in Conns |-> <<>>]
    /\ inc_val = [c \in Conns |-> NotRead]
    /\ nlines = 0
    /\ last = Event("init", None, <<>>, <<>>)

InitRx ==
    /\ rx_files = <<>>
    /\ part_file = NoFile
    /\ dst_file = NoFile
    /\ rx_tasks = {}
    /\ finalizing = {}
    /\ tries = 0
    /\ delivered = [begun |-> FALSE, count |-> [i \in DOMAIN SrcChunks |-> 0],
                    taken |-> [i \in DOMAIN SrcChunks |-> 0], ended |-> FALSE,
                    meta |-> FALSE, query |-> FALSE, cancelled |-> FALSE]
    /\ multi = InitMulti
    /\ up = InitUp

\* a deployment without CHAT_SECRET and JWT_SECRET
Init ==
    /\ secret = None
    /\ jwt_secret = None
    /\ InitHub
    /\ InitThreads
    /\ InitRx

\* a socket is accepted and its handler runs up to the read loop
Connect(c, first) ==
    /\ pc[c] = "new"
    /\ LET R == Handshake(HubState, c, first, authed[c], secret, jwt_secret)
       IN  /\ SetHub(R.H)
           /\ pc' = [pc EXCEPT ![c] = IF R.raised THEN "done" ELSE "loop"]
           /\ username' = [username EXCEPT ![c] = R.user]
           /\ authed' = [authed EXCEPT ![c] = R.authed]
    /\ room' = [room EXCEPT ![c] = HelloRoom(first)]
    /\ path' = [path EXCEPT ![c] = IF IsHello(first) THEN "hello" ELSE "implicit"]
    /\ avatar_arg' = [avatar_arg EXCEPT ![c] = HelloAvatar(first)]
    /\ last' = Event("connect", c, first,
                     IF HelloUser(c, first) \in UserSet(HubState, HelloRoom(first))
                     THEN KickList(HubState, HelloUser(c, first)) ELSE <<>>)
    /\ UNCHANGED <<to_remove, presence, nlines, secret, jwt_secret, broken, wire, rxvars, incvars>>

\* the read loop reads one line and handles it
Line(c, line) ==
    /\ pc[c] = "loop"
    /\ ~closed[c]
    /\ nlines < MaxLines
    /\ LET R0 == IF path[c] = "hello"
                 THEN MainLine(HubState, c, line, username[c], room[c], authed[c], secret, jwt_secret)
                 ELSE ImplicitLine(HubState, c, line, username[c], room[c], authed[c], secret, jwt_secret)
           R == IF R0.raised THEN [R0 EXCEPT !.H = Finally(@, c)] ELSE R0
       IN  /\ SetHub(R.H)
           /\ pc' = [pc EXCEPT ![c] = IF R.raised THEN "done" ELSE "loop"]
           /\ username' = [username EXCEPT ![c] = R.user]
           /\ authed' = [authed EXCEPT ![c] = R.authed]
    /\ nlines' = nlines + 1
    /\ last' = Event("line", c, line, <<>>)
    /\ UNCHANGED <<room, path, avatar_arg, to_remove, presence, secret, jwt_secret, broken, wire, rxvars, incvars>>

\* the read loop ends (the peer closed, or the socket was closed under it)
\* and the finally clause runs
Disconnect(c) ==
    /\ pc[c] = "loop"
    /\ SetHub(Finally(HubState, c))
    /\ pc' = [pc EXCEPT ![c] = "done"]
    /\ last' = Event("eof", c, <<>>, <<>>)
    /\ UNCHANGED <<username, room, authed, path, avatar_arg, to_remove, presence, nlines, secret,
                   jwt_secret, broken, wire, rxvars, incvars>>

\* the first line each modelled client sends in the routing scenarios
HelloOf(c) ==
    CASE c = "c1" -> {<<"HELLO", "A", DefaultRoom>>}
      [] c = "c2" -> {<<"HELLO", "B", DefaultRoom>>, <<"HELLO", "A", DefaultRoom>>}
      [] OTHER -> {<<"HELLO", "C", DefaultRoom>>, <<"HELLO", "B", OtherRoom>>}

AckText == <<"FILE_ACK", "h", "0", "2">>

ChatLines ==
    {<<"MSG", "hi">>, <<"MSG">> \o AckText, <<"DM", "B", "hi">>,
     <<"READ", "GROUP">>, <<"READ", "DM", "A">>}

Next ==
    \/ \E c \in Conns : \E first \in HelloOf(c) : Connect(c, first)
    \/ \E c \in Conns, line \in ChatLines : Line(c, line)
    \/ \E c \in Conns : Disconnect(c)

Spec == Init /\ [][Next]_vars

---------------------------------------------------------------------------
(* The wire scenarios: a deployment with or without CHAT_SECRET, a client  *)
(* that joins with HELLO and one that joins implicitly, SEQ envelopes      *)

WireSecret == "k"

InitWire ==
    /\ secret \in {None, WireSecret}
    /\ jwt_secret = None
    /\ InitHub
    /\ InitThreads
    /\ InitRx

\* the first line of each modelled client
WireFirst(c) ==
    CASE c = "c1" -> {<<"HELLO", "B", DefaultRoom>>}
      [] c = "c2" -> {<<"SEQ", "1", "MSG", "hi">>, <<"MSG", "hi">>, <<"SEQ", "1", "DM", "B", "hi">>,
                      <<"SEQ", "1", "AUTH", WireSecret>>}
      [] OTHER -> {}

WireLines ==
    {<<"SEQ", "1", "MSG", "hi">>, <<"SEQ", "2", "PING", "x">>, <<"SEQ", "1", "AUTH", WireSecret>>,
     <<"SEQ", "2", "FOO">>, <<"SEQ", "0", "HIST", "GROUP", "1">>, <<"SEQ", "0", "HIST", "GROUP", "x">>,
     <<"SEQ", "2", "UNREAD">>, <<"SEQ", "1", "READ", "GROUP">>, <<"SEQ", "2", "DM", "B", "hi">>}

NextWire ==
    \/ \E c \in Conns : \E first \in WireFirst(c) : Connect(c, first)
    \/ \E c \in Conns, line \in WireLines : Line(c, line)
    \/ \E c \in Conns : Disconnect(c)

SpecWire == InitWire /\ [][NextWire]_vars

---------------------------------------------------------------------------
(* The ACL scenarios: the admin page changes the members of a room while   *)
(* clients join                                                            *)

\* POST /api/set_room_members
SetRoomMembers(r, S) ==
    /\ room_members' = IF r = DefaultRoom \/ S = {} THEN Del(room_members, r)
                       ELSE Put(room_members, r, S)
    /\ out' = <<>>
    /\ last' = Event("set_room_members", None, <<r>>, <<>>)
    /\ UNCHANGED <<rooms, conn_info, room_names, avatars, avatar_data, unread, history, closed,
                   thrvars, incvars, rxvars, secret, jwt_secret, broken, wire, nlines>>

AclHello(c) ==
    CASE c = "c1" -> {<<"HELLO", "A", OtherRoom>>}
      [] c = "c2" -> {<<"HELLO", "A", OtherRoom>>, <<"HELLO", "B", OtherRoom>>}
      [] OTHER -> {<<"HELLO", "C", OtherRoom>>, <<"HELLO", "C", DefaultRoom>>}

AclSets == {{}, {"B"}, {"A", "B"}}

NextAcl ==
    \/ \E c \in Conns : \E first \in AclHello(c) : Connect(c, first)
    \/ \E r \in RoomIds, S \in AclSets : SetRoomMembers(r, S)
    \/ \E c \in Conns : Disconnect(c)

SpecAcl == Init /\ [][NextAcl]_vars

---------------------------------------------------------------------------
(* The handshake in the steps that other handler threads can interleave    *)
(* with: each step is one critical section of the Hub lock together with   *)
(* the writes that follow it                                               *)

\* first = f.readline() and `if username in hub.users(room)`
Check(c, first) ==
    /\ pc[c] = "new"
    /\ IsHello(first)
    /\ SetHub(HubState)
    /\ username' = [username EXCEPT ![c] = HelloUser(c, first)]
    /\ room' = [room EXCEPT ![c] = HelloRoom(first)]
    /\ path' = [path EXCEPT ![c] = "hello"]
    /\ avatar_arg' = [avatar_arg EXCEPT ![c] = HelloAvatar(first)]
    /\ pc' = [pc EXCEPT ![c] = IF HelloUser(c, first) \in UserSet(HubState, HelloRoom(first))
                               THEN "kick" ELSE "add"]
    /\ last' = Event("check", c, first, <<>>)
    /\ UNCHANGED <<authed, to_remove, presence, nlines, secret, jwt_secret, broken, wire, rxvars, incvars>>

\* Hub.kick: the locked scan that fills to_remove
KickCollect(c) ==
    /\ pc[c] = "kick"
    /\ SetHub(HubState)
    /\ to_remove' = [to_remove EXCEPT ![c] = KickList(HubState, username[c])]
    /\ UNCHANGED presence
    /\ pc' = [pc EXCEPT ![c] = IF KickList(HubState, username[c]) = <<>> THEN "add" ELSE "kicking"]
    /\ last' = Event("kick", c, <<>>, KickList(HubState, username[c]))
    /\ UNCHANGED <<username, room, authed, path, avatar_arg, nlines, secret, jwt_secret, broken, wire, rxvars, incvars>>

\* Hub.kick: one turn of the loop over to_remove
KickStep(c) ==
    /\ pc[c] = "kicking"
    /\ SetHub(KickOne(HubState, Head(to_remove[c])))
    /\ to_remove' = [to_remove EXCEPT ![c] = Tail(@)]
    /\ UNCHANGED presence
    /\ pc' = [pc EXCEPT ![c] = IF Tail(to_remove[c]) = <<>> THEN "add" ELSE "kicking"]
    /\ last' = Event("kicked", c, <<>>, <<Head(to_remove[c])>>)
    /\ UNCHANGED <<username, room, authed, path, avatar_arg, nlines, secret, jwt_secret, broken, wire, rxvars, incvars>>

\* `if not hub.add(conn, username, room)` and the rejection
Add(c) ==
    /\ pc[c] = "add"
    /\ LET A == HubAdd(HubState, c, username[c], room[c])
       IN  /\ SetHub(IF A.ok THEN A.H ELSE Reject(A.H, c, room[c]))
           /\ pc' = [pc EXCEPT ![c] = IF A.ok THEN "joined" ELSE "done"]
    /\ last' = Event("add", c, <<>>, <<>>)
    /\ UNCHANGED <<username, room, authed, path, avatar_arg, to_remove, presence, nlines, secret,
                   jwt_secret, broken, wire, rxvars, incvars>>

\* hub.set_avatar of the HELLO and the second hub.add, before the read loop
ReAdd(c) ==
    /\ pc[c] = "joined"
    /\ SetHub(AfterHello(HubState, c, username[c], room[c], avatar_arg[c]))
    /\ pc' = [pc EXCEPT ![c] = "loop"]
    /\ last' = Event("readd", c, <<>>, <<>>)
    /\ UNCHANGED <<username, room, authed, path, avatar_arg, to_remove, presence, nlines, secret,
                   jwt_secret, broken, wire, rxvars, incvars>>

ConcHello(c) ==
    CASE c = "c1" -> {<<"HELLO", "A", DefaultRoom>>}
      [] c = "c2" -> {<<"HELLO", "A", DefaultRoom>>}
      [] OTHER -> {<<"HELLO", "A", DefaultRoom>>, <<"HELLO", "B", DefaultRoom>>}

NextConc ==
    \/ \E c \in Conns : \E first \in ConcHello(c) : Check(c, first)
    \/ \E c \in Conns : KickCollect(c)
    \/ \E c \in Conns : KickStep(c)
    \/ \E c \in Conns : Add(c)
    \/ \E c \in Conns : ReAdd(c)
    \/ \E c \in Conns : Disconnect(c)

SpecConc == Init /\ [][NextConc]_vars

---------------------------------------------------------------------------
(* The counting scenarios: A, B and C have joined the default room and     *)
(* their handler threads route room messages at the same time.             *)
(* UnreadStore.inc is `m[conv] = m.get(conv, 0) + 1` outside every lock:   *)
(* the read and the store are separate steps of the calling thread.        *)

EmptyHub ==
    [rooms |-> (DefaultRoom :> <<>>), conn_info |-> <<>>, room_members |-> <<>>,
     room_names |-> (DefaultRoom :> DefaultRoom), avatars |-> <<>>, avatar_data |-> <<>>,
     unread |-> <<>>, history |-> <<>>, out |-> <<>>, closed |-> [c \in Conns |-> FALSE],
     broken |-> {}]

NameOf(c) == CASE c = "c1" -> "A" [] c = "c2" -> "B" [] OTHER -> "C"

\* the Hub after HELLO A, HELLO B and HELLO C for the default room
JoinedHub ==
    LET H1 == Handshake(EmptyHub, "c1", <<"HELLO", "A", DefaultRoom>>, TRUE, None, None).H
        H2 == Handshake(H1, "c2", <<"HELLO", "B", DefaultRoom>>, TRUE, None, None).H
    IN  Handshake(H2, "c3", <<"HELLO", "C", DefaultRoom>>, TRUE, None, None).H

InitRace ==
    /\ secret = None
    /\ jwt_secret = None
    /\ broken = {}
    /\ wire = InitWireLog
    /\ rooms = JoinedHub.rooms
    /\ conn_info = JoinedHub.conn_info
    /\ room_members = JoinedHub.room_members
    /\ room_names = JoinedHub.room_names
    /\ avatars = JoinedHub.avatars
    /\ avatar_data = JoinedHub.avatar_data
    /\ unread = JoinedHub.unread
    /\ history = JoinedHub.history
    /\ out = <<>>
    /\ closed = JoinedHub.closed
    /\ pc = [c \in Conns |-> "loop"]
    /\ username = [c \in Conns |-> NameOf(c)]
    /\ room = [c \in Conns |-> DefaultRoom]
    /\ authed = [c \in Conns |-> TRUE]
    /\ path = [c \in Conns |-> "hello"]
    /\ avatar_arg = [c \in Conns |-> None]
    /\ to_remove = [c \in Conns |-> <<>>]
    /\ presence = InitPresence
    /\ inc_todo = [c \in Conns |-> <<>>]
    /\ inc_val = [c \in Conns |-> NotRead]
    /\ nlines = 0
    /\ last = Event("init", None, <<>>, <<>>)
    /\ InitRx

\* the read loop reads `MSG <text>`; Hub.broadcast_text runs up to its loop
\* over store.inc
RouteMsg(c, line) ==
    /\ pc[c] = "loop"
    /\ ~closed[c]
    /\ nlines < MaxLines
    /\ StartsWith(line, "MSG")
    /\ SetHub(BroadcastSend(HubState, room[c], c, username[c], Tail(line)))
    /\ inc_todo' = [inc_todo EXCEPT ![c] = Values(Targets(HubState, room[c], c))]
    /\ pc' = [pc EXCEPT ![c] = IF Targets(HubState, room[c], c) = <<>> THEN "loop" ELSE "inc"]
    /\ nlines' = nlines + 1
    /\ last' = Event("route", c, line, <<>>)
    /\ UNCHANGED <<username, room, authed, path, avatar_arg, to_remove, presence, inc_val, secret,
                   jwt_secret, broken, wire, rxvars>>

\* UnreadStore.inc: m.get(conv, 0)
IncRead(c) ==
    /\ pc[c] = "inc"
    /\ inc_val[c] = NotRead
    /\ inc_val' = [inc_val EXCEPT ![c] = UnreadGet(unread, Head(inc_todo[c]), conv_group(room[c]))]
    /\ out' = <<>>
    /\ last' = Event("inc_read", c, <<>>, <<>>)
    /\ UNCHANGED <<rooms, conn_info, room_members, room_names, avatars, avatar_data, unread,
                   history, closed, thrvars, inc_todo, secret, jwt_secret, broken, wire, nlines, rxvars>>

\* UnreadStore.inc: m[conv] = <the value read> + 1
IncWrite(c) ==
    /\ pc[c] = "inc"
    /\ inc_val[c] # NotRead
    /\ unread' = MapPut(unread, <<Head(inc_todo[c]), conv_group(room[c])>>, inc_val[c] + 1)
    /\ inc_todo' = [inc_todo EXCEPT ![c] = Tail(@)]
    /\ inc_val' = [inc_val EXCEPT ![c] = NotRead]
    /\ pc' = [pc EXCEPT ![c] = IF Tail(inc_todo[c]) = <<>> THEN "loop" ELSE "inc"]
    /\ out' = <<>>
    /\ last' = Event("inc_write", c, <<>>, <<>>)
    /\ UNCHANGED <<rooms, conn_info, room_members, room_names, avatars, avatar_data, history,
                   closed, username, room, authed, path, avatar_arg, to_remove, presence, secret,
                   jwt_secret, broken, wire, nlines, rxvars>>

RaceLines == {<<"MSG", "hi">>, <<"MSG", "yo">>}

NextRace ==
    \/ \E c \in Conns, line \in RaceLines : RouteMsg(c, line)
    \/ \E c \in Conns : IncRead(c)
    \/ \E c \in Conns : IncWrite(c)

SpecRace == InitRace /\ [][NextRace]_vars

---------------------------------------------------------------------------
(* The transfer scenarios: one file sent to the receiver as FILE_BEGIN,    *)
(* its FILE_CHUNK lines in any order and possibly repeated, and FILE_END;  *)
(* the chunk-write tasks run on the threads of the global thread pool      *)

RxEvent(op, i, n, mode) == [op |-> op, i |-> i, n |-> n, mode |-> mode]
serverquiet == <<rooms, conn_info, room_members, room_names, avatars, avatar_data, unread,
                 history, closed, thrvars, incvars, secret, jwt_secret, broken, wire, nlines,
                 multi, up>>

\* FILE_BEGIN <name> <mime> <total> arrives
DeliverBegin ==
    /\ ~delivered.begun
    /\ SetRx(RxFileBegin(RxState, Len(SrcFile)))
    /\ delivered' = [delivered EXCEPT !.begun = TRUE]
    /\ out' = <<>>
    /\ last' = RxEvent("begin", 0, 0, None)
    /\ UNCHANGED serverquiet

\* FILE_CHUNK <offset> <base64> arrives
DeliverChunk(i) ==
    /\ delivered.begun
    /\ ~delivered.ended
    /\ delivered.count[i] < MaxDeliveries
    /\ SetRx(RxFileChunk(RxState, SrcChunks[i].off, B64Encode(SrcChunks[i].data),
                         delivered.count[i] + 1))
    /\ delivered' = [delivered EXCEPT !.count[i] = @ + 1,
                                      !.taken[i] = IF RxKey \in DOMAIN rx_files THEN @ + 1 ELSE @]
    /\ out' = <<>>
    /\ last' = RxEvent("chunk", i, delivered.count[i] + 1, None)
    /\ UNCHANGED serverquiet

\* FILE_END arrives, after every chunk has been sent at least once
DeliverEnd ==
    /\ delivered.begun
    /\ ~delivered.ended
    /\ \A i \in DOMAIN SrcChunks : delivered.count[i] >= 1
    /\ SetRx(RxFileEnd(RxState))
    /\ delivered' = [delivered EXCEPT !.ended = TRUE]
    /\ out' = <<>>
    /\ last' = RxEvent("end", 0, 0, None)
    /\ UNCHANGED serverquiet

\* a pool thread starts a task: it sizes the part file and opens it
RunOpen(t) ==
    /\ t.stage = "queued"
    /\ SetRx(TaskOpen(RxState, t))
    /\ out' = <<>>
    /\ last' = RxEvent("open", t.off, t.n, None)
    /\ UNCHANGED <<delivered, serverquiet>>

\* a pool thread writes the chunk through its open file
RunWrite(t) ==
    /\ t.stage = "opened"
    /\ SetRx(TaskWrite(RxState, t))
    /\ out' = TaskAck(RxState, t)
    /\ last' = RxEvent("write", t.off, t.n, t.mode)
    /\ UNCHANGED <<delivered, serverquiet>>

\* the 150 ms timer of _rx_file_end tries again; _tick arms it once more only
\* while tries[0] < max_tries
Tick ==
    /\ RxKey \in finalizing
    /\ RxKey \in DOMAIN rx_files
    /\ tries < MaxTries
    /\ SetRx(TickTry(RxState))
    /\ out' = TickHave(RxState)
    /\ last' = RxEvent("tick", 0, 0, None)
    /\ UNCHANGED <<delivered, serverquiet>>

NextRx ==
    \/ DeliverBegin
    \/ \E i \in DOMAIN SrcChunks : DeliverChunk(i)
    \/ DeliverEnd
    \/ \E t \in rx_tasks : RunOpen(t)
    \/ \E t \in rx_tasks : RunWrite(t)
    \/ Tick

SpecRx == Init /\ [][NextRx]_vars

\* the Qt event loop fires every armed timer, and the global thread pool runs
\* every task it was handed
SpecRxFair ==
    /\ SpecRx
    /\ WF_vars(Tick)
    /\ WF_vars(\E t \in rx_tasks : RunOpen(t) \/ RunWrite(t))

---------------------------------------------------------------------------
(* The scenarios of two transfers: the sender uploads f.bin and g.bin to   *)
(* the same conversation; the lines of one transfer arrive in order, the   *)
(* two transfers interleave, chunks may be resent                          *)

multiquiet == <<hubvars, thrvars, incvars, secret, jwt_secret, broken, wire, nlines,
                rx_files, part_file, dst_file, rx_tasks, finalizing, tries, delivered, up>>

\* FILE_BEGIN <fn> arrives
BeginOf(fn) ==
    /\ ~multi.begun[fn]
    /\ multi' = [MultiBegin(multi, fn) EXCEPT !.begun[fn] = TRUE]
    /\ last' = RxEvent("begin", 0, 0, fn)
    /\ UNCHANGED multiquiet

\* a FILE_CHUNK of the upload of fn arrives
ChunkOf(fn, off) ==
    /\ multi.begun[fn]
    /\ ~multi.ended[fn]
    /\ multi.count[fn][off] < MaxDeliveries
    /\ multi' = [MultiChunk(multi, fn, off) EXCEPT !.count[fn][off] = @ + 1]
    /\ last' = RxEvent("chunk", off, 0, fn)
    /\ UNCHANGED multiquiet

\* the FILE_END of the upload of fn arrives, after each of its chunks was sent
EndOf(fn) ==
    /\ multi.begun[fn]
    /\ ~multi.ended[fn]
    /\ \A o \in MultiOffsets : multi.count[fn][o] >= 1
    /\ multi' = [MultiEnd(multi) EXCEPT !.ended[fn] = TRUE]
    /\ last' = RxEvent("end", 0, 0, fn)
    /\ UNCHANGED multiquiet

NextMulti ==
    \/ \E fn \in MultiFiles : BeginOf(fn)
    \/ \E fn \in MultiFiles, off \in MultiOffsets : ChunkOf(fn, off)
    \/ \E fn \in MultiFiles : EndOf(fn)

SpecMulti == Init /\ [][NextMulti]_vars

---------------------------------------------------------------------------
(* The cancelled transfer: FILE_CANCEL arrives on the main thread while    *)
(* chunk tasks are queued or running on the threads of the pool, so the    *)
(* statements of a task are steps of their own                             *)

\* FILE_CANCEL <name> arrives
DeliverCancel ==
    /\ delivered.begun
    /\ ~delivered.cancelled
    /\ SetRx(RxFileCancel(RxState))
    /\ delivered' = [delivered EXCEPT !.cancelled = TRUE]
    /\ out' = <<>>
    /\ last' = RxEvent("cancel", 0, 0, None)
    /\ UNCHANGED serverquiet

\* a pool thread starts a task: it looks the key up in _rx_files
RunCheck(t) ==
    /\ t.stage = "queued"
    /\ SetRx(TaskCheck(RxState, t))
    /\ out' = <<>>
    /\ last' = RxEvent("check", t.off, t.n, None)
    /\ UNCHANGED <<delivered, serverquiet>>

\* the task goes on: it creates a missing part file, sizes it and opens it
RunCreateOpen(t) ==
    /\ t.stage = "checked"
    /\ SetRx(TaskCreateOpen(RxState, t))
    /\ out' = <<>>
    /\ last' = RxEvent("open", t.off, t.n, None)
    /\ UNCHANGED <<delivered, serverquiet>>

NextCancel ==
    \/ DeliverBegin
    \/ \E i \in DOMAIN SrcChunks : DeliverChunk(i)
    \/ DeliverCancel
    \/ \E t \in rx_tasks : RunCheck(t)
    \/ \E t \in rx_tasks : RunCreateOpen(t)
    \/ \E t \in rx_tasks : RunWrite(t)

SpecCancel == Init /\ [][NextCancel]_vars

---------------------------------------------------------------------------
(* The announced transfer: the uploader's first socket carries FILE_META,  *)
(* FILE_QUERY and FILE_BEGIN in this order, then the chunks and FILE_END   *)

\* FILE_META <name> <mime> <total> <md5> arrives
DeliverMeta ==
    /\ ~delivered.meta
    /\ SetRx(RxFileMeta(RxState, Len(SrcFile), Md5))
    /\ delivered' = [delivered EXCEPT !.meta = TRUE]
    /\ out' = MetaReply(RxState, Len(SrcFile), Md5)
    /\ last' = RxEvent("meta", 0, 0, None)
    /\ UNCHANGED serverquiet

\* FILE_QUERY <md5> arrives
DeliverQuery ==
    /\ delivered.meta
    /\ ~delivered.query
    /\ out' = QueryReply(Md5)
    /\ delivered' = [delivered EXCEPT !.query = TRUE]
    /\ last' = RxEvent("query", 0, 0, None)
    /\ UNCHANGED <<rx_files, part_file, dst_file, rx_tasks, finalizing, tries, serverquiet>>

NextAnnounced ==
    \/ DeliverMeta
    \/ DeliverQuery
    \/ delivered.query /\ DeliverBegin
    \/ \E i \in DOMAIN SrcChunks : DeliverChunk(i)
    \/ DeliverEnd
    \/ \E t \in rx_tasks : RunOpen(t)
    \/ \E t \in rx_tasks : RunWrite(t)
    \/ Tick

SpecAnnounced == Init /\ [][NextAnnounced]_vars

---------------------------------------------------------------------------
(* The upload scenarios: the user sends one file as a DM, to another user  *)
(* or to their own name; the peer may already hold the file                *)

upquiet == <<hubvars, thrvars, incvars, secret, jwt_secret, broken, wire, nlines,
             rx_files, part_file, dst_file, rx_tasks, finalizing, tries, delivered, multi>>
UpEvent(op, x) == [op |-> op, x |-> x]
ChunksSent == {m \in up.sent : m.line[1] = "FILE_CHUNK"}

\* the user picks a file and a conversation
Upload(peer, have) ==
    /\ ~up.started
    /\ up' = UpStart(up, peer, have)
    /\ last' = UpEvent("start", peer)
    /\ UNCHANGED upquiet

\* a chunk thread runs one turn
ChunkStep(i) ==
    /\ up.started
    /\ i \in DOMAIN up.threads
    /\ up.threads[i].alive
    /\ up' = ChunkTurn(up, i)
    /\ last' = UpEvent("chunk", i)
    /\ UNCHANGED upquiet

\* the queued finished signal of a chunk thread is handled
PieceFinished ==
    /\ up.finq > 0
    /\ ~up.cancelling
    /\ up' = OnPieceFinished([up EXCEPT !.finq = @ - 1])
    /\ last' = UpEvent("piece", 0)
    /\ UNCHANGED upquiet

\* the peer answers FILE_META or FILE_QUERY
HaveReply(q) ==
    /\ up.started
    /\ q \notin up.replied
    /\ up' = PeerHave(up, q)
    /\ last' = UpEvent("have", q)
    /\ UNCHANGED upquiet

\* the peer acknowledges a chunk that was sent
AckReply(off) ==
    /\ \E m \in ChunksSent : m.line[2] = off
    /\ up.nacks < MaxAcks
    /\ up' = PeerAck(up, off)
    /\ last' = UpEvent("ack", off)
    /\ UNCHANGED upquiet

\* a line of the peer is received by the window
Receive(m) ==
    /\ m \in up.inbox
    /\ ~up.cancelling
    /\ up' = UpDispatch([up EXCEPT !.inbox = @ \ {m}], m)
    /\ last' = UpEvent(IF m.kind = "ack" THEN "recv_ack" ELSE "recv_have", m.off)
    /\ UNCHANGED upquiet

NextUp ==
    \/ \E peer \in {Me, "B"}, have \in BOOLEAN : Upload(peer, have)
    \/ \E i \in 1..ConnCount : ChunkStep(i)
    \/ PieceFinished
    \/ \E q \in {"FILE_META", "FILE_QUERY"} : HaveReply(q)
    \/ \E off \in up.offsets : AckReply(off)
    \/ \E m \in up.inbox : Receive(m)

SpecUp == Init /\ [][NextUp]_vars

---------------------------------------------------------------------------
(* The resume scenarios: the user sends the file to the own name while the *)
(* receiving side still holds a pending transfer of it with `written`      *)
(* bytes in its .part file                                                 *)

\* the receiving window answers FILE_META with FILE_HAVE <md5> <written> PARTIAL
PeerPartial(U, written) ==
    [U EXCEPT !.replied = @ \cup {"FILE_META"},
              !.inbox = @ \cup {[form |-> f, kind |-> "have", status |-> "PARTIAL",
                                  off |-> written] : f \in Forms(U.peer)}]

PartialReply(written) ==
    /\ up.started
    /\ "FILE_META" \notin up.replied
    /\ up' = PeerPartial(up, written)
    /\ last' = UpEvent("partial", written)
    /\ UNCHANGED upquiet

NextResume ==
    \/ Upload(Me, FALSE)
    \/ \E i \in 1..ConnCount : ChunkStep(i)
    \/ PieceFinished
    \/ \E written \in {0, UpChunk} : PartialReply(written)
    \/ \E off \in up.offsets : AckReply(off)
    \/ \E m \in up.inbox : Receive(m)

SpecResume == Init /\ [][NextResume]_vars

---------------------------------------------------------------------------
(* The stop scenarios: the user sends the file to the own name; any number *)
(* of the connections could be opened, a sendall of a chunk thread may     *)
(* raise, and the user may choose "cancel" in the menu of the row.  The    *)
(* poll of the flag and the sendall of a chunk thread are steps of their   *)
(* own; while cancel() waits for the threads the main thread handles no    *)
(* signal and no line.                                                     *)

\* the user picks a file; n of the connections are opened
UploadWith(n) ==
    /\ ~up.started
    /\ up' = UpStartWith(up, Me, FALSE, n)
    /\ last' = UpEvent("start", n)
    /\ UNCHANGED upquiet

\* a chunk thread is at the top of its loop
TopStep(i) ==
    /\ i \in DOMAIN up.threads
    /\ up.threads[i].alive
    /\ up.threads[i].stage = "top"
    /\ up' = ChunkTop(up, i)
    /\ last' = UpEvent("top", i)
    /\ UNCHANGED upquiet

\* a chunk thread reads and sends its chunk
SendStep(i, raises) ==
    /\ i \in DOMAIN up.threads
    /\ up.threads[i].alive
    /\ up.threads[i].stage = "send"
    /\ up' = ChunkSend(up, i, raises)
    /\ last' = UpEvent("send", i)
    /\ UNCHANGED upquiet

\* _cancel of the context menu calls w.cancel(): the flag is set, then
\* cancel() waits for the threads
CancelCall ==
    /\ up.started
    /\ up.registered
    /\ ~up.canceled
    /\ up' = [up EXCEPT !.canceled = TRUE, !.cancelling = TRUE]
    /\ last' = UpEvent("cancel", 0)
    /\ UNCHANGED upquiet

\* every t.wait(10000) has returned, with the thread finished or not: cancel()
\* closes the sockets and returns, _cancel marks the row and forgets the worker
CancelReturn ==
    /\ up.cancelling
    /\ up' = [up EXCEPT !.cancelling = FALSE, !.closed = TRUE, !.row = "canceled",
                         !.registered = FALSE]
    /\ last' = UpEvent("cancelled", 0)
    /\ UNCHANGED upquiet

NextStop ==
    \/ \E n \in 0..ConnCount : UploadWith(n)
    \/ \E i \in 1..ConnCount : TopStep(i)
    \/ \E i \in 1..ConnCount, raises \in BOOLEAN : SendStep(i, raises)
    \/ CancelCall
    \/ CancelReturn
    \/ PieceFinished
    \/ \E off \in up.offsets : AckReply(off)
    \/ \E m \in up.inbox : Receive(m)

SpecStop == Init /\ [][NextStop]_vars

\* every started thread runs on, cancel() returns after its bounded waits, and
\* the event loop delivers every queued signal
SpecStopFair ==
    /\ SpecStop
    /\ \A i \in 1..ConnCount : WF_vars(TopStep(i) \/ SendStep(i, FALSE))
    /\ WF_vars(CancelReturn)
    /\ WF_vars(PieceFinished)

---------------------------------------------------------------------------
(* The room scenarios: A, B and C have joined the default room with HELLO  *)
(* and send lines of the routed commands                                   *)

FileVerbs == {"FILE_META", "FILE_QUERY", "FILE_BEGIN", "FILE_CHUNK", "FILE_ACK", "FILE_HAVE",
              "FILE_END", "FILE_CANCEL"}

RoomLines ==
    {<<"DM", t, "hi">> : t \in Users} \cup {<<"READ", "DM", t>> : t \in Users}
      \cup {<<"MSG", v, "x">> : v \in FileVerbs} \cup {<<"DM", "B", v, "x">> : v \in FileVerbs}
      \cup {<<"MSG", "hi">>, <<"MSG", BigToken>>, <<"DM", "B", BigToken>>, <<"hello", "all">>}

NextRoom == \E c \in Conns, line \in RoomLines : Line(c, line)

SpecRoom == InitRace /\ [][NextRoom]_vars

---------------------------------------------------------------------------
(* The presence scenarios: A, B and C join the default room with HELLO and *)
(* leave it, each in its own handler thread.  Hub.add and Hub.remove       *)
(* change the maps under the lock; broadcast_users then takes the names    *)
(* under the lock (Hub.users) and writes the USERS line in broadcast_sys,  *)
(* and other threads run between the three.  The JOIN, LEAVE and ROOM_NAME *)
(* writes are made in the step they follow.                                *)

\* Hub.add, the statements under the lock, and the JOIN line
AddLocked(H, c, u, r) ==
    LET H1 == [H EXCEPT !.rooms = Put(@, r, MapPut(Get(@, r, <<>>), c, u)),
                        !.conn_info = Put(@, c, <<r, u>>)]
    IN  BroadcastSys(H1, r, <<"[SYS]", "JOIN", r, u, Get(H1.avatars, u, "")>>)

\* Hub.remove, the statements under the lock, and the LEAVE line
RemoveLocked(H, c) ==
    IF c \notin DOMAIN H.conn_info THEN H
    ELSE LET r == H.conn_info[c][1]
             H1 == [H EXCEPT !.conn_info = Del(@, c),
                             !.rooms = IF r \in DOMAIN @ THEN Put(@, r, MapDel(@[r], c)) ELSE @]
         IN  BroadcastSys(H1, r, <<"[SYS]", "LEAVE", r, H.conn_info[c][2]>>)

\* Hub.broadcast_users up to the call of broadcast_sys
UsersParts(H, r) == [i \in DOMAIN HubUsers(H, r) |-> UserPart(H, HubUsers(H, r)[i])]

\* the connections a step has written to
UsersRecipients(H) == {H.out[i][1] : i \in DOMAIN H.out}

presencequiet == <<authed, path, avatar_arg, to_remove, nlines, secret, jwt_secret, broken,
                   wire, rxvars, incvars>>

\* the first hub.add of the handshake, and the second one before the read loop
JoinInsert(c) ==
    /\ pc[c] \in {"new", "readd"}
    /\ SetHub(AddLocked(HubState, c, NameOf(c), DefaultRoom))
    /\ username' = [username EXCEPT ![c] = NameOf(c)]
    /\ room' = [room EXCEPT ![c] = DefaultRoom]
    /\ pc' = [pc EXCEPT ![c] = IF @ = "new" THEN "snap" ELSE "resnap"]
    /\ last' = Event("insert", c, <<>>, <<>>)
    /\ UNCHANGED <<presence, presencequiet>>

\* the read loop ends: hub.remove of the finally clause
LeaveRemove(c) ==
    /\ pc[c] = "loop"
    /\ SetHub(RemoveLocked(HubState, c))
    /\ pc' = [pc EXCEPT ![c] = "lsnap"]
    /\ last' = Event("remove", c, <<>>, <<>>)
    /\ UNCHANGED <<username, room, presence, presencequiet>>

\* names = self.users(room)
UsersSnapshot(c) ==
    /\ pc[c] \in {"snap", "resnap", "lsnap"}
    /\ SetHub(HubState)
    /\ presence' = [presence EXCEPT !.names[c] = UsersParts(HubState, room[c])]
    /\ pc' = [pc EXCEPT ![c] = CASE @ = "snap" -> "send" [] @ = "resnap" -> "resend"
                                  [] OTHER -> "lsend"]
    /\ last' = Event("names", c, <<>>, <<>>)
    /\ UNCHANGED <<username, room, presencequiet>>

\* self.broadcast_sys(room, USERS ...); Hub.add goes on with ROOM_NAME, the
\* finally clause with conn.close()
UsersSend(c) ==
    /\ pc[c] \in {"send", "resend", "lsend"}
    /\ LET r == room[c]
           H1 == BroadcastSys(HubState, r, <<"[SYS]", "USERS", r>> \o presence.names[c])
           H2 == IF pc[c] = "lsend" THEN Close(H1, c)
                 ELSE BroadcastSys(H1, r, <<"[SYS]", "ROOM_NAME", r, Get(H1.room_names, r, r)>>)
       IN  /\ SetHub(H2)
           /\ presence' = [presence EXCEPT !.got = [d \in Conns |->
                               IF d \in UsersRecipients(H1)
                               THEN [any |-> TRUE, parts |-> presence.names[c]] ELSE @[d]]]
    /\ pc' = [pc EXCEPT ![c] = CASE @ = "send" -> "readd" [] @ = "resend" -> "loop"
                                  [] OTHER -> "done"]
    /\ last' = Event("users", c, <<>>, <<>>)
    /\ UNCHANGED <<username, room, presencequiet>>

\* the clients that disconnect
Leavers == {"c1"}

NextPresence ==
    \/ \E c \in Conns : JoinInsert(c)
    \/ \E c \in Leavers : LeaveRemove(c)
    \/ \E c \in Conns : UsersSnapshot(c)
    \/ \E c \in Conns : UsersSend(c)

SpecPresence == Init /\ [][NextPresence]_vars

---------------------------------------------------------------------------
(* The name scenarios: clients join under names that contain '&', which    *)
(* the handshake takes like any other token, and send DMs, HIST and UNREAD *)

ConvNames == {"a", "b", "c", "a&b", "b&c"}

ConvFirst(c) ==
    CASE c = "c1" -> {<<"HELLO", "a&b", DefaultRoom>>}
      [] c = "c2" -> {<<"HELLO", "c", DefaultRoom>>}
      [] OTHER -> {<<"HELLO", "a", DefaultRoom>>}

ConvLines ==
    {<<"DM", "c", "hi">>, <<"DM", "a&b", "hi">>, <<"HIST", "DM", "b&c", "50">>,
     <<"HIST", "DM", "c", "50">>, <<"UNREAD">>}

NextConv ==
    \/ \E c \in Conns : \E first \in ConvFirst(c) : Connect(c, first)
    \/ \E c \in Conns, line \in ConvLines : Line(c, line)

SpecConv == Init /\ [][NextConv]_vars

---------------------------------------------------------------------------
(* The admin scenarios: the admin page adds, renames and deletes rooms,    *)
(* sets ACLs and deletes users while clients join, send and leave          *)

adminquiet == <<thrvars, incvars, rxvars, secret, jwt_secret, broken, wire, nlines>>

\* POST /api/add_room
AddRoom(r) ==
    /\ rooms' = IF r \in DOMAIN rooms THEN rooms ELSE Put(rooms, r, <<>>)
    /\ room_names' = IF r \in DOMAIN room_names THEN room_names ELSE Put(room_names, r, r)
    /\ out' = <<>>
    /\ last' = Event("add_room", None, <<r>>, <<>>)
    /\ UNCHANGED <<conn_info, room_members, avatars, avatar_data, unread, history, closed,
                   adminquiet>>

\* a rename that does not exempt the default room
RenameAnyRoom(H, r, name) ==
    BroadcastSys([H EXCEPT !.room_names = Put(@, r, name)], r, <<"[SYS]", "ROOM_NAME", r, name>>)

\* POST /api/set_room_name: the new name is stored and announced to the room
RenameRoom(H, r, name) ==
    IF r # DefaultRoom
    THEN BroadcastSys([H EXCEPT !.room_names = Put(@, r, name)], r,
                      <<"[SYS]", "ROOM_NAME", r, name>>)
    ELSE H

SetRoomName(r, name) ==
    /\ SetHub(RenameRoom(HubState, r, name))
    /\ last' = Event("set_room_name", None, <<r, name>>, <<>>)
    /\ UNCHANGED adminquiet

\* POST /api/delete_room: the room map goes only when it is empty, the name always
DeleteRoom(r) ==
    /\ rooms' = IF r # DefaultRoom /\ r \in DOMAIN rooms /\ Len(rooms[r]) = 0
                 THEN Del(rooms, r) ELSE rooms
    /\ room_names' = IF r # DefaultRoom THEN Del(room_names, r) ELSE room_names
    /\ out' = <<>>
    /\ last' = Event("delete_room", None, <<r>>, <<>>)
    /\ UNCHANGED <<conn_info, room_members, avatars, avatar_data, unread, history, closed,
                   adminquiet>>

\* POST /api/delete_user
DeleteUser(u) ==
    /\ SetHub(HubDeleteUser(HubState, u))
    /\ last' = Event("delete_user", None, <<u>>, <<>>)
    /\ UNCHANGED adminquiet

\* the first line of each modelled client: a second session of A, a join of a
\* room under ACL, an implicit join whose first line raises
AdminHello(c) ==
    CASE c = "c1" -> {<<"HELLO", "A", DefaultRoom>>}
      [] c = "c2" -> {<<"HELLO", "A", DefaultRoom>>, <<"HELLO", "B", OtherRoom>>}
      [] OTHER -> {<<"HELLO", "C", OtherRoom>>, <<"HIST", "GROUP", "x">>}

\* a line whose count makes parse_hist raise
AdminLines == {<<"HIST", "GROUP", "x">>}
AdminNames == {"lobby"}
AdminSets == {{}, {"B"}}

NextAdmin ==
    \/ \E c \in Conns : \E first \in AdminHello(c) : Connect(c, first)
    \/ \E c \in Conns, line \in AdminLines : Line(c, line)
    \/ \E c \in Conns : Disconnect(c)
    \/ \E r \in RoomIds : AddRoom(r)
    \/ \E r \in RoomIds, name \in AdminNames : SetRoomName(r, name)
    \/ \E r \in RoomIds, S \in AdminSets : SetRoomMembers(r, S)
    \/ \E r \in RoomIds : DeleteRoom(r)
    \/ \E u \in {"A", "B"} : DeleteUser(u)

SpecAdmin == Init /\ [][NextAdmin]_vars

---------------------------------------------------------------------------
(* The authentication scenarios: a deployment with CHAT_SECRET and         *)
(* JWT_SECRET; clients authenticate with a signed AUTH, a token or the     *)
(* shared secret, after a HELLO or as their first line                    *)

JwtSecret == "j"

\* `AUTH <user> <ts> <mac>` with the mac of CHAT_SECRET
AuthLine(u) == <<"AUTH", u, "1", Hmac(WireSecret, u \o ":" \o "1")>>
\* `AUTH_JWT <token>`: the algorithm, the subject and the signature of the token
JwtLine(u) == <<"AUTH_JWT", "HS256", u, Hmac(JwtSecret, "HS256" \o "." \o u)>>

InitAuth ==
    /\ secret = WireSecret
    /\ jwt_secret = JwtSecret
    /\ InitHub
    /\ InitThreads
    /\ InitRx

AuthFirst(c) ==
    CASE c = "c1" -> {<<"HELLO", "B", DefaultRoom>>, AuthLine("A")}
      [] c = "c2" -> {<<"HELLO", "A", DefaultRoom>>, JwtLine("A")}
      [] OTHER -> {<<"HELLO", "C", DefaultRoom>>}

AuthLines ==
    {AuthLine("A"), JwtLine("A"), <<"AUTH", WireSecret>>, <<"DM", "A", "hi">>, <<"MSG", "hi">>}

NextAuth ==
    \/ \E c \in Conns : \E first \in AuthFirst(c) : Connect(c, first)
    \/ \E c \in Conns, line \in AuthLines : Line(c, line)
    \/ \E c \in Conns : Disconnect(c)

SpecAuth == InitAuth /\ [][NextAuth]_vars

---------------------------------------------------------------------------
(* The failure scenarios: A, B and C have joined the default room; the     *)
(* peer of a connection goes away, and until its handler reads the end of  *)
(* input every write to that socket raises                                 *)

\* the peer of a connection is gone
PeerReset(c) ==
    /\ pc[c] = "loop"
    /\ c \notin broken
    /\ broken' = broken \cup {c}
    /\ out' = <<>>
    /\ last' = Event("reset", c, <<>>, <<>>)
    /\ UNCHANGED <<rooms, conn_info, room_members, room_names, avatars, avatar_data, unread,
                   history, closed, thrvars, incvars, rxvars, secret, jwt_secret, wire, nlines>>

FailLines == {<<"SEQ", "1", "MSG", "hi">>, <<"SEQ", "2", "DM", "B", "hi">>, <<"DM", "C", "hi">>}

NextFail ==
    \/ \E c \in Conns : PeerReset(c)
    \/ \E c \in Conns, line \in FailLines : c \notin broken /\ Line(c, line)
    \/ \E c \in Conns : Disconnect(c)

SpecFail == InitRace /\ [][NextFail]_vars

---------------------------------------------------------------------------
(* The ordering scenarios: A, B and C have joined the default room; each   *)
(* handler thread reads `MSG <text>` lines and runs Hub.broadcast_text,    *)
(* whose sendall calls are separate steps that interleave with the other   *)
(* handler threads                                                         *)

\* each handler reads at most this many lines
MaxSends == 2

\* A and C send, B only receives; the texts each of them sends
OrderTexts(c) == CASE c = "c1" -> {"x", "y"} [] c = "c3" -> {"z"} [] OTHER -> {}

\* handle_client calls hub.broadcast_text and returns to readline only after
\* it: a handler with targets to write is not in its read loop
PcAsync(targets) == "loop"
PcAfterRead(targets) == IF targets = <<>> THEN "loop" ELSE "send"

\* one invocation of Hub.broadcast_text: the text and the targets still to write
Batch(text, targets) == [text |-> text, targets |-> targets]

\* the handler reads `MSG <text>`; Hub.broadcast_text takes its snapshot of the
\* room under the lock
ReadMsg(c, text) ==
    /\ pc[c] = "loop"
    /\ Len(wire.read[c]) < MaxSends
    /\ LET targets == ConnsOf(Targets(HubState, room[c], c))
       IN  /\ wire' = [wire EXCEPT !.read[c] = Append(@, text),
                                   !.flight[c] = Append(@, Batch(text, targets))]
           /\ pc' = [pc EXCEPT ![c] = PcAfterRead(targets)]
    /\ out' = <<>>
    /\ last' = Event("read", c, <<"MSG", text>>, <<>>)
    /\ UNCHANGED <<rooms, conn_info, room_members, room_names, avatars, avatar_data, unread,
                   history, closed, username, room, authed, path, avatar_arg, to_remove, presence,
                   incvars, rxvars, secret, jwt_secret, broken, nlines>>

\* one c.sendall(msg) of the loop over the targets of the i-th invocation in flight
WriteOne(c, i) ==
    /\ i \in DOMAIN wire.flight[c]
    /\ wire.flight[c][i].targets # <<>>
    /\ LET b == wire.flight[c][i]
           d == Head(b.targets)
           msg == <<username[c] \o ">", b.text>>
       IN  /\ wire' = [wire EXCEPT !.got[d] = Append(@, msg),
                                   !.flight[c][i].targets = Tail(@)]
           /\ out' = <<<<d, msg>>>>
    /\ last' = Event("write", c, <<>>, <<>>)
    /\ UNCHANGED <<rooms, conn_info, room_members, room_names, avatars, avatar_data, unread,
                   history, closed, thrvars, incvars, rxvars, secret, jwt_secret, broken, nlines>>

\* the end of Hub.broadcast_text: save_message and the unread counters; the
\* handler returns to its read loop
EndBroadcast(c, i) ==
    /\ i \in DOMAIN wire.flight[c]
    /\ wire.flight[c][i].targets = <<>>
    /\ LET H1 == SaveMessage(HubState, conv_group(room[c]), username[c], <<wire.flight[c][i].text>>)
       IN  SetHub(IncAll(H1, Values(Targets(HubState, room[c], c)), conv_group(room[c])))
    /\ wire' = [wire EXCEPT !.flight[c] =
                   SubSeq(@, 1, i - 1) \o SubSeq(@, i + 1, Len(@))]
    /\ pc' = [pc EXCEPT ![c] = "loop"]
    /\ last' = Event("end", c, <<>>, <<>>)
    /\ UNCHANGED <<username, room, authed, path, avatar_arg, to_remove, presence, incvars, rxvars,
                   secret, jwt_secret, broken, nlines>>

NextOrder ==
    \/ \E c \in Conns : \E text \in OrderTexts(c) : ReadMsg(c, text)
    \/ \E c \in Conns, i \in 1..MaxSends : WriteOne(c, i)
    \/ \E c \in Conns, i \in 1..MaxSends : EndBroadcast(c, i)

SpecOrder == InitRace /\ [][NextOrder]_vars

---------------------------------------------------------------------------
(* The join scenarios: Hub.add reads the ACL before it takes the lock, so  *)
(* its permission check and its insertion are separate steps of the        *)
(* handler thread, and the admin page may change the ACL between them      *)

\* Hub.add: `allowed = self.room_members.get(room)` and the test on it
Allowed(H, u, r) == r \notin DOMAIN H.room_members \/ u \in H.room_members[r]

\* Hub.add after the permission check: the insertion under the lock and the
\* JOIN, USERS and ROOM_NAME broadcasts
HubInsert(H, c, u, r) ==
    LET H1 == [H EXCEPT !.rooms = Put(@, r, MapPut(Get(@, r, <<>>), c, u)),
                        !.conn_info = Put(@, c, <<r, u>>)]
        av == Get(H1.avatars, u, "")
        H2 == BroadcastSys(H1, r, <<"[SYS]", "JOIN", r, u, av>>)
        H3 == BroadcastUsers(H2, r)
    IN  BroadcastSys(H3, r, <<"[SYS]", "ROOM_NAME", r, Get(H3.room_names, r, r)>>)

\* Hub.add, the permission check; a refused join is answered and ends
AclCheck(c) ==
    /\ pc[c] = "add"
    /\ SetHub(IF Allowed(HubState, username[c], room[c]) THEN HubState
              ELSE Reject(HubState, c, room[c]))
    /\ pc' = [pc EXCEPT ![c] = IF Allowed(HubState, username[c], room[c])
                               THEN "insert" ELSE "done"]
    /\ last' = Event("allowed", c, <<>>, <<>>)
    /\ UNCHANGED <<username, room, authed, path, avatar_arg, to_remove, presence, nlines, secret,
                   jwt_secret, broken, wire, rxvars, incvars>>

\* Hub.add, from `with self.lock:` on
Insert(c) ==
    /\ pc[c] = "insert"
    /\ SetHub(HubInsert(HubState, c, username[c], room[c]))
    /\ pc' = [pc EXCEPT ![c] = "joined"]
    /\ last' = Event("insert", c, <<>>, <<>>)
    /\ UNCHANGED <<username, room, authed, path, avatar_arg, to_remove, presence, nlines, secret,
                   jwt_secret, broken, wire, rxvars, incvars>>

NextJoin ==
    \/ \E c \in Conns : \E first \in AclHello(c) : Check(c, first)
    \/ \E c \in Conns : KickCollect(c)
    \/ \E c \in Conns : KickStep(c)
    \/ \E c \in Conns : AclCheck(c)
    \/ \E c \in Conns : Insert(c)
    \/ \E c \in Conns : ReAdd(c)
    \/ \E r \in RoomIds, S \in AclSets : SetRoomMembers(r, S)
    \/ \E c \in Conns : Disconnect(c)

SpecJoin == Init /\ [][NextJoin]_vars

---------------------------------------------------------------------------
(* Reading the write log and the Hub maps *)

Wrote(log, c, line) == \E i \in DOMAIN log : log[i] = <<c, line>>
WrittenTo(log, c) == \E i \in DOMAIN log : log[i][1] = c
RegisteredAs(c, u, r) == c \in DOMAIN conn_info /\ conn_info[c] = <<r, u>>

\* the step just taken read `line` in the read loop of a connection
LineStep == nlines' = nlines + 1
LineRead == last'.line
Reader == last'.c
\* the step just taken is a handshake
ConnectStep == last'.op = "connect" /\ pc[last'.c] = "new" /\ pc'[last'.c] # "new"

IsDmLine(line) == Len(line) >= 3 /\ line[1] = "DM"
IsMsgLine(line) == StartsWith(line, "MSG")

---------------------------------------------------------------------------
(* C1: DM privacy *)

\* C1: when a connection registered as A in a room sends `DM B <text>`, with
\* B another user name, `[DM] FROM A <text>` is written to every connection
\* registered as B in that room, and nothing at all is written to a
\* connection registered under a third name.
C1_DmPrivacy ==
    [][(LineStep /\ IsDmLine(LineRead) /\ Reader \in DOMAIN conn_info
          /\ conn_info[Reader][2] = username[Reader] /\ LineRead[2] # username[Reader])
       => LET A == username[Reader]
              B == LineRead[2]
              r == conn_info[Reader][1]
          IN  \A c \in Conns :
                /\ RegisteredAs(c, B, r)
                     => Wrote(out', c, <<"[DM]", "FROM", A>> \o Rest(LineRead, 3))
                /\ (c \in DOMAIN conn_info /\ conn_info[c][2] \notin {A, B})
                     => ~WrittenTo(out', c)]_vars

\* A, B and C are in the default room and A has just sent a DM to B
C1_Witness ==
    /\ last.op = "line"
    /\ last.line = <<"DM", "B", "hi">>
    /\ \E a, b, c \in Conns :
         /\ last.c = a
         /\ RegisteredAs(a, "A", DefaultRoom)
         /\ RegisteredAs(b, "B", DefaultRoom)
         /\ RegisteredAs(c, "C", DefaultRoom)
         /\ Wrote(out, b, <<"[DM]", "FROM", "A", "hi">>)

---------------------------------------------------------------------------
(* C2: SEQ/ACK correlation *)

\* the step just taken handled a command line: a line of a read loop, or the
\* first line of an implicit join
Handled == LineStep \/ (ConnectStep /\ ~IsHello(last'.line) /\ pc'[last'.c] = "loop")
IsSeqLine(line) == StartsWith(line, "SEQ") /\ line[2] \in NumTokens
AckOf(c, line) == <<c, <<"[ACK]", line[2]>>>>

\* C2: for every line `SEQ <n> <body>` with an integer n that a handler
\* reads, the first line of an implicit join included, the handler writes the
\* reply `[ACK] <n>` to that connection exactly once, as the last write of
\* the handling of the line.
C2_SeqAck ==
    [][(Handled /\ IsSeqLine(LineRead))
       => /\ Cardinality({i \in DOMAIN out' : out'[i] = AckOf(Reader, LineRead)}) = 1
          /\ out'[Len(out')] = AckOf(Reader, LineRead)]_vars

---------------------------------------------------------------------------
(* C3: broadcast exclusion *)

\* C3: a room broadcast `MSG <text>` never writes the line `<user>> <text>`
\* to the connection that sent it, whatever the text is.
C3_BroadcastExclusion ==
    [][(LineStep /\ IsMsgLine(LineRead))
       => ~Wrote(out', Reader, <<username[Reader] \o ">">> \o Tail(LineRead))]_vars

---------------------------------------------------------------------------
(* C4: single-session eviction *)

KickedLine == <<"[SYS]", "KICKED_LOGIN_CONFLICT">>
IsJoinWrite(w) == Len(w[2]) >= 2 /\ w[2][1] = "[SYS]" /\ w[2][2] = "JOIN"

\* C4: when a HELLO names a user already registered in the room, every prior
\* connection of that user is gone from both Hub maps and closed, its
\* KICKED_LOGIN_CONFLICT notice is the last line written to it and precedes
\* every write of the JOIN broadcast that announces the new member, and the
\* new connection is a member of the room.
C4_EvictionOrder ==
    [][(ConnectStep /\ last'.kicked # <<>>)
       => /\ \A k \in DOMAIN last'.kicked :
               LET v == last'.kicked[k]
               IN  /\ v \notin DOMAIN conn_info'
                   /\ \A r \in DOMAIN rooms' : v \notin Keys(rooms'[r])
                   /\ closed'[v]
                   /\ \E i \in DOMAIN out' :
                        /\ out'[i] = <<v, KickedLine>>
                        /\ \A j \in DOMAIN out' : j > i => out'[j][1] # v
                        /\ \A j \in DOMAIN out' : IsJoinWrite(out'[j]) => j > i
          /\ pc'[last'.c] = "loop" => last'.c \in Keys(rooms'[HelloRoom(last'.line)])]_vars

\* a second HELLO of user A has evicted the first connection of A
C4_Witness ==
    /\ last.op = "connect"
    /\ last.kicked = <<"c1">>
    /\ RegisteredAs(last.c, "A", DefaultRoom)
    /\ closed["c1"]
    /\ Wrote(out, "c1", KickedLine)

---------------------------------------------------------------------------
(* C5: one live session per user per room *)

\* C5: in every reachable state, however the handshakes, kicks and
\* disconnects of different handler threads interleave, no room's member map
\* holds two connections with the same user name.
C5_OneSessionPerUser ==
    \A r \in DOMAIN rooms : \A i, j \in DOMAIN rooms[r] : rooms[r][i][2] = rooms[r][j][2] => i = j

---------------------------------------------------------------------------
(* C6: auth gating *)

IsAuthOrPing(body) == body # <<>> /\ body[1] \in {"AUTH", "AUTH_JWT", "PING"}
IsSysOrAck(line) == line # <<>> /\ line[1] \in {"[SYS]", "[ACK]"}

\* C6: a command other than AUTH, AUTH_JWT and PING that an unauthenticated
\* session sends, as a line of its read loop or as the first line of an
\* implicit join, persists nothing, changes no unread counter and no avatar,
\* and makes the server write no chat or DM line: a read-loop line gets at
\* most its ACK, a first line the [SYS] lines of the join and its ACK.
C6_AuthGating ==
    [][(Handled /\ ~authed[Reader] /\ ~IsAuthOrPing(ParseSeq(LineRead).body))
       => /\ history' = history
          /\ unread' = unread
          /\ avatars' = avatars
          /\ avatar_data' = avatar_data
          /\ \A i \in DOMAIN out' :
               IF LineStep THEN IsSeqLine(LineRead) /\ out'[i] = AckOf(Reader, LineRead)
               ELSE IsSysOrAck(out'[i][2])]_vars

---------------------------------------------------------------------------
(* C7: no partial join *)

DeniedLine(r) == <<"[SYS]", "ERROR", "Permission", "denied", "for", "room", r>>

\* C7: when a HELLO names a room whose ACL excludes the user, the connection
\* gets exactly one [SYS] ERROR line and is closed, it is in no Hub map, and
\* nothing else happens: no other line is written, no other connection is
\* closed, and both Hub maps are as before.
C7_NoPartialJoin ==
    [][(ConnectStep /\ IsHello(last'.line)
          /\ HelloRoom(last'.line) \in DOMAIN room_members
          /\ HelloUser(last'.c, last'.line) \notin room_members[HelloRoom(last'.line)])
       => /\ out' = << <<last'.c, DeniedLine(HelloRoom(last'.line))>> >>
          /\ closed' = [closed EXCEPT ![last'.c] = TRUE]
          /\ last'.c \notin DOMAIN conn_info'
          /\ rooms' = rooms
          /\ conn_info' = conn_info]_vars

---------------------------------------------------------------------------
(* C8: unread counters *)

\* the room messages persisted so far that were sent by a user other than u
RoutedTo(u, r) ==
    Cardinality({i \in DOMAIN history : history[i].conv = conv_group(r) /\ history[i].sender # u})

Quiescent == \A c \in Conns : pc[c] = "loop" /\ inc_todo[c] = <<>>

\* C8: while A, B and C stay in the room and nobody sends READ, once the
\* handlers have finished the messages they read, the group counter of each
\* user equals the number k of room messages that the other members sent.
C8_UnreadCount ==
    (Quiescent /\ \A c \in Conns : RegisteredAs(c, NameOf(c), DefaultRoom))
      => \A u \in Users : UnreadGet(unread, u, conv_group(DefaultRoom)) = RoutedTo(u, DefaultRoom)

---------------------------------------------------------------------------
(* C9: out-of-order reassembly *)

\* C9: when every chunk of the transfer has been delivered exactly once, in
\* whatever order, and every write has been done, the final attachment, once
\* it exists, is byte for byte the source file.
C9_OutOfOrderReassembly ==
    (dst_file # NoFile /\ rx_tasks = {} /\ \A i \in DOMAIN SrcChunks : delivered.count[i] = 1)
      => dst_file = SrcFile

---------------------------------------------------------------------------
(* C10: idempotence of a repeated chunk *)

\* the step just taken is the write of a chunk whose offset is already
\* recorded, in a transfer that is pending before and after the write
RepeatedWrite ==
    /\ last'.op = "write"
    /\ last' # last
    /\ RxKey \in DOMAIN rx_files
    /\ RxKey \in DOMAIN rx_files'
    /\ last'.i \in DOMAIN rx_files[RxKey].chunks

\* the bytes of the file at the offset of chunk i are the bytes of the source
SameAt(file, i) ==
    /\ Len(file) >= SrcChunks[i].off + Len(SrcChunks[i].data)
    /\ SubSeq(file, SrcChunks[i].off + 1, SrcChunks[i].off + Len(SrcChunks[i].data))
         = SrcChunks[i].data

\* C10: the write of a chunk that was already written at the same offset with
\* the same data, while the transfer is pending, leaves the bytes of the part
\* file and the recorded offset-to-length mapping as they were; and once the
\* file is finalized and every write is done, its bytes at the offset of a
\* chunk that was delivered twice while pending are those of the source file.
C10_ChunkIdempotence ==
    /\ [][RepeatedWrite
          => /\ part_file' = part_file
             /\ rx_files'[RxKey].chunks = rx_files[RxKey].chunks]_vars
    /\ [](\A i \in DOMAIN SrcChunks :
            (dst_file # NoFile /\ rx_tasks = {} /\ delivered.taken[i] = 2)
              => SameAt(dst_file, i))

---------------------------------------------------------------------------
(* C11: dedup short-circuit *)

\* the upload is over: no chunk thread runs, no signal and no line is pending
UpOver ==
    /\ up.started
    /\ \A i \in DOMAIN up.threads : ~up.threads[i].alive
    /\ up.finq = 0
    /\ up.inbox = {}

\* C11: when the peer already holds the file and has answered FILE_META with
\* FILE_HAVE ... COMPLETE, the upload ends with the row marked complete and
\* without any FILE_CHUNK line sent on any of the uploader's sockets.
C11_DedupShortCircuit ==
    (UpOver /\ up.have /\ "FILE_META" \in up.replied /\ up.pending <= 0)
      => (up.row = "complete" /\ ChunksSent = {})

---------------------------------------------------------------------------
(* C15: bounded resend *)

\* the offsets handed to the chunk threads that were just started
RoundWork(U) == UNION {{U.threads[i].todo[k] : k \in DOMAIN U.threads[i].todo} : i \in DOMAIN U.threads}
RoundLen(U) == Len(U.threads[1].todo) + Len(U.threads[2].todo)
EndsSent(U) == Cardinality({m \in U.sent : m.line = <<"FILE_END">>})

\* the last chunk thread of a pass or round has reported and the upload was not cancelled
Decides == last'.op = "piece" /\ up.finq > 0 /\ up.pending = 1 /\ ~up.canceled

\* C15: the uploader starts at most two resend rounds; a round hands to the
\* chunk threads exactly the offsets not acknowledged when it starts, each
\* once; and when a pass or round is over with no offset missing or with two
\* rounds used, FILE_END is sent and success is reported, also when offsets
\* are still unacknowledged; otherwise a new round starts.
C15_BoundedResend ==
    [][/\ up'.resend_rounds <= MaxResendRounds
       /\ up'.resend_rounds # up.resend_rounds
            => /\ up'.resend_rounds = up.resend_rounds + 1
               /\ RoundWork(up') = up'.offsets \ up'.acked
               /\ RoundLen(up') = Cardinality(up'.offsets \ up'.acked)
               /\ EndsSent(up') = EndsSent(up)
       /\ Decides
            => IF up.offsets \ up.acked = {} \/ up.resend_rounds = MaxResendRounds
               THEN /\ EndsSent(up') = EndsSent(up) + 1
                    /\ up'.finished = Append(up.finished, <<TRUE, "">>)
                    /\ up'.resend_rounds = up.resend_rounds
               ELSE /\ up'.resend_rounds = up.resend_rounds + 1
                    /\ up'.finished = up.finished]_vars

\* two rounds were used, an offset is still unacknowledged, and the upload
\* has sent FILE_END and reported success
C15_Witness ==
    /\ up.resend_rounds = MaxResendRounds
    /\ up.offsets \ up.acked # {}
    /\ up.acked # {}
    /\ EndsSent(up) = 1
    /\ up.finished = <<<<TRUE, "">>>>

---------------------------------------------------------------------------
(* C12: conversation id canonicalization *)

LastRecord(h) == h[Len(h)]

\* C12: conv_dm gives the same id for both orders of two user names; a DM is
\* stored and counted as unread under the id the target computes for the
\* sender, and READ DM by the target of the conversation resets that counter.
C12_ConvCanonical ==
    [][/\ \A a \in Users, b \in Users : conv_dm(a, b) = conv_dm(b, a)
       /\ (LineStep /\ IsDmLine(LineRead) /\ LineRead[3] = "hi")
            => LET u == username[Reader]
                   t == LineRead[2]
               IN  /\ history' = Append(history, [conv |-> conv_dm(t, u), sender |-> u,
                                                  text |-> <<"hi">>])
                   /\ UnreadGet(unread', t, conv_dm(t, u)) = UnreadGet(unread, t, conv_dm(t, u)) + 1
       /\ (LineStep /\ LineRead[1] = "READ")
            => /\ UnreadGet(unread', username[Reader], conv_dm(LineRead[3], username[Reader])) = 0
               /\ history' = history]_vars

\* C has sent B a DM, stored under dm:B&C, and B has read the conversation with C
C12_Witness ==
    /\ last.op = "line"
    /\ last.line = <<"READ", "DM", "C">>
    /\ username[last.c] = "B"
    /\ history # <<>>
    /\ LastRecord(history).sender = "C"
    /\ LastRecord(history).conv = "dm:B&C"
    /\ <<"B", "dm:B&C">> \in Keys(unread)
    /\ UnreadGet(unread, "B", "dm:B&C") = 0

---------------------------------------------------------------------------
(* C13: PING / PONG *)

IsPing(body) == Len(body) >= 2 /\ body[1] = "PING"
PongsTo(log, c, body) == {i \in DOMAIN log : log[i] = <<c, <<"PONG">> \o Tail(body)>>}

\* C13: for every line `PING <token>` a handler reads, whether the session is
\* authenticated or not, exactly one line `PONG <token>` is written to that
\* connection, and the Hub maps, the history and the unread counters stay as
\* they were.
C13_PingPong ==
    [][(Handled /\ IsPing(ParseSeq(LineRead).body))
       => /\ Cardinality(PongsTo(out', Reader, ParseSeq(LineRead).body)) = 1
          /\ rooms' = rooms
          /\ conn_info' = conn_info
          /\ history' = history
          /\ unread' = unread]_vars
---------------------------------------------------------------------------
\* a connection is in no Hub map
Forgotten(c) ==
    /\ c \notin DOMAIN conn_info
    /\ \A r \in DOMAIN rooms : c \notin Keys(rooms[r])

\* C14 (guaranteed cleanup): once the handler of a connection has terminated
\* -- by end of input, by an exception of a line it read, by a refused join,
\* after a kick or after the admin deleted its user -- the connection is in
\* neither Hub map and its socket is closed.
C14_GuaranteedCleanup ==
    \A c \in Conns : pc[c] = "done" => Forgotten(c) /\ closed[c]

\* the handler of c3 ended on a line that raised and a second handler has ended
\* too, while the connection that evicted it is still registered
C14_Witness ==
    /\ pc["c1"] = "done"
    /\ pc["c3"] = "done"
    /\ last.op = "line" /\ last.c = "c3" /\ last.line = <<"HIST", "GROUP", "x">>
    /\ RegisteredAs("c2", "A", DefaultRoom)

---------------------------------------------------------------------------
\* the default room as the Hub is constructed: present, under its own name,
\* without ACL, so that hub.add admits every user name
DefaultRoomOpen ==
    /\ DefaultRoom \in DOMAIN rooms
    /\ DefaultRoom \in DOMAIN room_names
    /\ room_names[DefaultRoom] = DefaultRoom
    /\ DefaultRoom \notin DOMAIN room_members
    /\ \A c \in Conns, u \in Users : HubAdd(HubState, c, u, DefaultRoom).ok

\* C18 (default room invariant): whatever admin operations (add_room,
\* set_room_name, set_room_members, delete_room, delete_user) are interleaved
\* with joins and leaves, the default room exists, keeps its original display
\* name and has no ACL, and every HELLO for it is admitted.
C18_DefaultRoom ==
    /\ [](DefaultRoomOpen)
    /\ [][ConnectStep /\ IsHello(last'.line) /\ HelloRoom(last'.line) = DefaultRoom
            => /\ last'.c \in DOMAIN conn_info'
               /\ conn_info'[last'.c] = <<DefaultRoom, HelloUser(last'.c, last'.line)>>]_vars

\* the admin has renamed the other room and put it under ACL, and has just
\* asked to delete the default room while a client is in it
C18_Witness ==
    /\ last.op = "delete_room" /\ last.line = <<DefaultRoom>>
    /\ OtherRoom \in DOMAIN room_names /\ room_names[OtherRoom] = "lobby"
    /\ OtherRoom \in DOMAIN room_members
    /\ \E c \in Conns : c \in DOMAIN conn_info /\ conn_info[c][1] = DefaultRoom

---------------------------------------------------------------------------
\* a body with a verb the protocol does not have, or a HIST whose count is no number
IsMalformed(body) == body = <<"FOO">> \/ ParseHist(body).kind = "raise"

\* C16 (malformed input ignored): when an authenticated session reads a line
\* with an unknown verb, or a HIST with a non-numeric count, the session stays
\* open, no Hub, history or unread state changes, and nothing is written to
\* any connection except the [ACK] of the line's SEQ envelope, which is sent.
C16_MalformedIgnored ==
    [][LineStep /\ authed[Reader] /\ IsMalformed(ParseSeq(LineRead).body)
        => /\ pc'[Reader] = "loop"
           /\ ~closed'[Reader]
           /\ UNCHANGED <<rooms, conn_info, history, unread>>
           /\ out' = <<AckOf(Reader, LineRead)>>]_vars

---------------------------------------------------------------------------
\* the payload of a routed line: the text of `MSG <text>` or of `DM <user> <text>`
Payload(line) == IF IsDmLine(line) THEN Rest(line, 3) ELSE Tail(line)

\* the payloads that are not to be persisted: the file-transfer control
\* messages, a ping, a payload at or over the size ceiling
Excluded(text) ==
    text[1] \in FileVerbs \cup {"PING"} \/ TextLen(text) >= SizeCeiling

\* C17 (persistence exclusions): a routed MSG or DM whose payload is FILE_META,
\* FILE_QUERY, FILE_BEGIN, FILE_CHUNK, FILE_ACK, FILE_HAVE, FILE_END,
\* FILE_CANCEL, a ping, or at or over the size ceiling adds no record to the
\* history; every other routed MSG or DM adds exactly one record.
C17_PersistenceExclusions ==
    [][LineStep /\ (IsDmLine(LineRead) \/ IsMsgLine(LineRead))
        => IF Excluded(Payload(LineRead))
           THEN history' = history
           ELSE /\ Len(history') = Len(history) + 1
                /\ SubSeq(history', 1, Len(history)) = history
                /\ history'[Len(history')].text = Payload(LineRead)]_vars

---------------------------------------------------------------------------
\* the members of the reader's room other than the reader, before the step
OtherMembers(c) == Keys(Members(HubState, room[c])) \ {c}

\* C19 (broadcast delivery): for every payload text of a routed `MSG <text>`,
\* broadcast_text writes `<user>> <text>` to every connection that is a member
\* of the sender's room when the line is handled, other than the origin.
C19_BroadcastDelivery ==
    [][LineStep /\ IsMsgLine(LineRead)
        => \A c \in OtherMembers(Reader) :
              Wrote(out', c, <<username[Reader] \o ">">> \o Tail(LineRead))]_vars

---------------------------------------------------------------------------
\* the handler of c is in its read loop, on an open socket, and an AUTH or
\* AUTH_JWT has succeeded on it (the deployment has secrets, so `authed` starts
\* false); username[c] is the name it authenticated as
AuthenticatedAs(c, u) == pc[c] = "loop" /\ ~closed[c] /\ authed[c] /\ username[c] = u

\* C20 (authenticated identity): once AUTH or AUTH_JWT has succeeded as U on a
\* session, the Hub's entry for the connection names U; a DM addressed to U by
\* a session of the same room is written to the connection, a DM addressed to
\* another name is not; and the messages it sends carry U as their sender.
C20_AuthenticatedIdentity ==
    /\ [](\A c \in Conns : \A u \in Users \cup {Addr(c)} :
            AuthenticatedAs(c, u) => RegisteredAs(c, u, room[c]))
    /\ [][LineStep /\ authed[Reader] /\ IsDmLine(LineRead)
            => \A c \in Conns \ {Reader} :
                  (\E u \in Users : AuthenticatedAs(c, u)) /\ room[c] = room[Reader]
                  => (Wrote(out', c, <<"[DM]", "FROM", username[Reader]>> \o Rest(LineRead, 3))
                        <=> AuthenticatedAs(c, LineRead[2]))]_vars

---------------------------------------------------------------------------
\* the step wrote a message line -- `<user>> <text>` or `[DM] FROM <user> <text>` --
\* of the reader to connection c
DeliveredTo(c) ==
    \E i \in DOMAIN out' :
        /\ out'[i][1] = c
        /\ \/ out'[i][2][1] = username[Reader] \o ">"
           \/ Len(out'[i][2]) >= 3 /\ out'[i][2][1] = "[DM]" /\ out'[i][2][2] = "FROM"
                 /\ out'[i][2][3] = username[Reader]

\* the step raised the unread counter kept under key k
Raised(k) == UnreadGet(unread', k[1], k[2]) > UnreadGet(unread, k[1], k[2])

\* C21 (unread increments track deliveries): a routed line raises the unread
\* counter of (u, conversation) only if u is not the sender and a message line
\* of the conversation was written to a connection registered as u; a DM to a
\* user without connection, a DM to oneself and a broadcast that is not
\* forwarded raise no counter.
C21_UnreadTracksDelivery ==
    [][LineStep
        => \A k \in Keys(unread') :
              Raised(k) => /\ k[1] # username[Reader]
                           /\ \E c \in Conns : RegisteredAs(c, k[1], room[Reader])
                                                /\ DeliveredTo(c)]_vars

---------------------------------------------------------------------------
\* the counter that the increment in progress on thread c is about
IncKey(c) == <<Head(inc_todo[c]), conv_group(room[c])>>

\* C22 (unread tracker under concurrency): increments called concurrently from
\* several session threads are atomic -- every completed increment of a
\* (user, conversation) counter leaves it one above the value it had just
\* before, so that k increments without reset leave it at k.
C22_UnreadAtomic ==
    [][last'.op = "inc_write"
        => UnreadGet(unread', IncKey(last'.c)[1], IncKey(last'.c)[2])
             = UnreadGet(unread, IncKey(last'.c)[1], IncKey(last'.c)[2]) + 1]_vars

---------------------------------------------------------------------------
\* the connections a routed body is for, and the line they are to receive
Recipients(c, body) ==
    IF IsDmLine(body)
    THEN {d \in Keys(Members(HubState, room[c])) : conn_info[d][2] = body[2]}
    ELSE OtherMembers(c)
LineFor(c, body) ==
    IF IsDmLine(body) THEN <<"[DM]", "FROM", username[c]>> \o Rest(body, 3)
    ELSE <<username[c] \o ">">> \o Tail(body)
\* the conversation of a routed body and the users whose counter it raises
ConvOf(c, body) ==
    IF IsDmLine(body) THEN conv_dm(username[c], body[2]) ELSE conv_group(room[c])
Counted(c, body) ==
    IF IsDmLine(body) THEN {body[2]} ELSE {conn_info[d][2] : d \in OtherMembers(c)}

\* C23 (best-effort fan-out): when a routed MSG or DM, or the LEAVE of a
\* disconnect, meets a recipient whose socket cannot be written, every other
\* recipient of the snapshot still gets its line, the record is saved, the
\* unread counters are raised and the sender's [ACK] is sent, and the failing
\* connection is neither closed nor taken out of the Hub maps.
C23_BestEffortFanOut ==
    /\ [][LineStep
            => LET body == ParseSeq(LineRead).body
               IN  /\ \A c \in Recipients(Reader, body) \ broken :
                          Wrote(out', c, LineFor(Reader, body))
                   /\ Len(history') = Len(history) + 1
                   /\ \A u \in Counted(Reader, body) :
                          UnreadGet(unread', u, ConvOf(Reader, body))
                            = UnreadGet(unread, u, ConvOf(Reader, body)) + 1
                   /\ IsSeqLine(LineRead) => out'[Len(out')] = AckOf(Reader, LineRead)
                   /\ UNCHANGED <<rooms, conn_info, closed>>]_vars
    /\ [][last'.op = "eof" /\ last'.c \in DOMAIN conn_info
            => /\ \A c \in OtherMembers(last'.c) \ broken :
                      Wrote(out', c, <<"[SYS]", "LEAVE", room[last'.c], username[last'.c]>>)
               /\ \A c \in OtherMembers(last'.c) :
                      /\ c \in DOMAIN conn_info' /\ c \in Keys(Members(HubState, room[c])')
                      /\ closed'[c] = closed[c]]_vars

\* B's peer is gone and B is still registered; A has just sent a room message,
\* which C received, and got its ACK
C23_Witness ==
    /\ "c2" \in broken /\ RegisteredAs("c2", "B", DefaultRoom) /\ ~closed["c2"]
    /\ last.op = "line" /\ last.c = "c1" /\ last.line = <<"SEQ", "1", "MSG", "hi">>
    /\ Wrote(out, "c3", <<"A>", "hi">>)
    /\ ~WrittenTo(out, "c2")
    /\ Wrote(out, "c1", <<"[ACK]", "1">>)

---------------------------------------------------------------------------
\* the texts of the lines `<user>> <text>` in a receive log, in order of arrival
TextsFrom(log, user) ==
    LET mine == SelectSeq(log, LAMBDA l : l[1] = user \o ">")
    IN  [i \in DOMAIN mine |-> mine[i][2]]

IsPrefix(s, q) == Len(s) <= Len(q) /\ s = SubSeq(q, 1, Len(s))

\* C24 (per-sender ordering): for any two members a and b of the room, the
\* lines `<user>> <text>` that b has received from a are, in order, the texts
\* of the lines the server has read from a -- all of them but those whose
\* write to b is still to come -- whatever the other handler threads do.
C24_PerSenderOrder ==
    \A a \in Conns : \A b \in Conns \ {a} :
        /\ IsPrefix(TextsFrom(wire.got[b], username[a]), wire.read[a])
        /\ wire.flight[a] = <<>> => TextsFrom(wire.got[b], username[a]) = wire.read[a]

\* B has received x then y from A, with a line of C between them
C24_Witness ==
    /\ wire.read["c1"] = <<"x", "y">>
    /\ wire.got["c2"] = <<<<"A>", "x">>, <<"C>", "z">>, <<"A>", "y">>>>

---------------------------------------------------------------------------
\* the connections that the step takes out of the Hub maps
Removed == {c \in DOMAIN conn_info : c \notin DOMAIN conn_info'}

\* the step wrote to d the LEAVE of user u from room r and, after it, a USERS list of r
ToldLeave(d, r, u) ==
    \E i \in DOMAIN out' : \E j \in DOMAIN out' :
        /\ i < j
        /\ out'[i] = <<d, <<"[SYS]", "LEAVE", r, u>>>>
        /\ out'[j][1] = d
        /\ Len(out'[j][2]) >= 3 /\ SubSeq(out'[j][2], 1, 3) = <<"[SYS]", "USERS", r>>

\* C25 (LEAVE on every removal): whenever a registered connection is taken out
\* of its room's member map -- by its own disconnect, by a kick or by the
\* admin's delete_user -- every member that remains in the room is sent
\* `[SYS] LEAVE <room> <user>` and then a refreshed USERS list.
C25_LeaveOnRemoval ==
    [][\A c \in Removed :
          \A d \in Keys(Members(HubState, conn_info[c][1])) \ Removed :
              ToldLeave(d, conn_info[c][1], conn_info[c][2])]_vars

---------------------------------------------------------------------------
\* C26 (rooms change only through the control plane): the set of rooms known
\* to the Hub changes only in a step of the admin operations add_room and
\* delete_room; no handshake and no line read on the chat port adds or
\* removes a room.
C26_RoomsByAdminOnly ==
    [][DOMAIN rooms' # DOMAIN rooms => last'.op \in {"add_room", "delete_room"}]_vars

---------------------------------------------------------------------------
\* the connections that the step puts into the member map of room r
Inserted(r) == Keys(rooms'[r]) \ Keys(Get(rooms, r, <<>>))

\* C27 (ACL enforced at insertion): whenever a connection is put into the
\* member map of a room, the ACL that the room has at that moment admits the
\* user name it is put under, however the joins interleave with the admin's
\* set_room_members.
C27_AclAtInsertion ==
    [][\A r \in DOMAIN rooms' : \A c \in Inserted(r) :
          r \in DOMAIN room_members => conn_info'[c][2] \in room_members[r]]_vars

---------------------------------------------------------------------------
\* the FILE_CHUNK lines that the step sends
NewChunks == {m \in up'.sent \ up.sent : m.line[1] = "FILE_CHUNK"}

\* C28 (resume point): once the sender has observed `FILE_HAVE <hash> <written>
\* PARTIAL` for the transfer it has started, it sends no FILE_CHUNK with an
\* offset below <written>, and the offsets it has partitioned for the first
\* pass and the resend rounds all lie in [written, size).
C28_ResumePoint ==
    /\ [][\A m \in NewChunks : m.line[2] >= up.resume_written]_vars
    /\ [](up.started => \A off \in up.offsets : off >= up.resume_written)

\* C29 Chunk acknowledgement: in a transfer announced by FILE_META, FILE_QUERY
\* and FILE_BEGIN, every chunk task that writes bytes while the transfer is
\* pending sends FILE_ACK with the hash of FILE_META and the offset it wrote.
ChunkWritten == last'.op = "write" /\ RxKey \in DOMAIN rx_files /\ last'.mode # None
AckFor(off) ==
    {k \in DOMAIN out' : /\ out'[k][2][3] = "FILE_ACK"
                         /\ out'[k][2][4] = Md5
                         /\ out'[k][2][5] = off}
C29_ChunkAck ==
    [][delivered.meta /\ delivered.begun /\ ChunkWritten => AckFor(last'.i) # {}]_vars

\* C30 Receiver finalization: once FILE_END has been received for a pending
\* transfer, the receiver eventually delivers the file: the bytes are moved to
\* the final location and the pending state is dropped, also when the timer
\* has used up its retries.
EndReceived == delivered.ended /\ RxKey \in finalizing /\ RxKey \in DOMAIN rx_files
Finalized == dst_file # NoFile /\ RxKey \notin DOMAIN rx_files /\ RxKey \notin finalizing
C30_ReceiverFinalization == EndReceived ~> Finalized

\* C31 Receiver cancellation: after the receiver has processed FILE_CANCEL the
\* partial file of the transfer does not exist, also when chunk tasks of the
\* transfer were queued or running when the cancel arrived.
C31_ReceiverCancel == delivered.cancelled => part_file = NoFile

\* C32 Sender cancellation: once cancel() has set the flag of a started
\* transfer no chunk thread starts on another chunk, no FILE_END is sent, the
\* sockets are closed when cancel() returns, and the upload ends as cancelled.
EndsSentBy(U) == {m \in U.sent : m.line = <<"FILE_END">>}
StartsChunk(i) ==
    /\ i \in DOMAIN up.threads /\ i \in DOMAIN up'.threads
    /\ up.threads[i].stage = "top"
    /\ up'.threads[i].stage = "send"
EndedCancelled == \E k \in DOMAIN up.finished : up.finished[k] = <<FALSE, Cancelled>>
C32_SenderCancel ==
    /\ [][up.canceled => /\ \A i \in 1..ConnCount : ~StartsChunk(i)
                          /\ EndsSentBy(up') = EndsSentBy(up)
                          /\ (up.cancelling /\ ~up'.cancelling => up'.closed)]_vars
    /\ (up.canceled ~> EndedCancelled)

\* C33 Parallel upload connections coexist: when a connection completes its
\* HELLO <user> <room> handshake, every connection that was registered under
\* the same user in that room (the primary session, the other upload
\* connections) is still registered afterwards.
SameUserSessions(u, r) == {d \in Conns : RegisteredAs(d, u, r)}
C33_ParallelConnections ==
    [][(ConnectStep /\ IsHello(last'.line) /\ pc'[last'.c] = "loop")
       => \A d \in SameUserSessions(last'.line[2], last'.line[3]) :
             /\ d \in DOMAIN conn_info'
             /\ conn_info'[d] = <<last'.line[3], last'.line[2]>>
             /\ ~closed'[d]]_vars

\* C34 Sender termination: every upload that start() began emits `finished`,
\* for any number of opened connections and any pattern of acknowledgements
\* and of failing writes.
C34_SenderTermination == up.started ~> (up.finished # <<>>)

\* C35 No traffic to unauthenticated sessions: with a secret configured, no
\* handler writes a room broadcast line or a [DM] FROM line to a connection
\* whose session has not authenticated, and the HELLO of such a connection
\* evicts no authenticated session.
IsTraffic(line) ==
    /\ line # <<>>
    /\ \/ line[1] \in {u \o ">" : u \in Users}
       \/ Len(line) >= 2 /\ line[1] = "[DM]" /\ line[2] = "FROM"
C35_NoTrafficUnauthenticated ==
    [][/\ \A i \in DOMAIN out' :
             (out'[i][1] # last'.c /\ ~authed[out'[i][1]]) => ~IsTraffic(out'[i][2])
       /\ (ConnectStep /\ IsHello(last'.line) /\ ~authed'[last'.c])
             => \A k \in DOMAIN last'.kicked : ~authed[last'.kicked[k]]]_vars

\* C36 Credentials are not forwarded: the handling of an AUTH or AUTH_JWT
\* line, whether the authentication succeeds or not, writes no broadcast and
\* no DM line to any connection and appends nothing to the history.
IsAuthBody(body) == body # <<>> /\ body[1] \in {"AUTH", "AUTH_JWT"}
C36_CredentialsNotForwarded ==
    [][(Handled /\ IsAuthBody(ParseSeq(LineRead).body))
       => /\ history' = history
          /\ \A i \in DOMAIN out' : ~IsTraffic(out'[i][2])]_vars

\* C37 Conversation ids are collision-free: conv_dm gives distinct ids to
\* distinct unordered pairs of the names the handshake accepts, so the rows
\* that HIST DM <peer> replays to a user were sent by that user or by the peer.
C37_ConvCollisionFree ==
    [][/\ \A a \in ConvNames : \A b \in ConvNames : \A c \in ConvNames : \A d \in ConvNames :
            conv_dm(a, b) = conv_dm(c, d) => {a, b} = {c, d}
       /\ (LineStep /\ ParseHist(LineRead).kind = "DM")
            => \A i \in DOMAIN out' :
                  out'[i][2][2] = "HISTORY"
                     => out'[i][2][5] \in {username[Reader], ParseHist(LineRead).peer}]_vars

\* C38 Chunks stay with their transfer: every chunk the receiver writes goes
\* into the part file of the transfer it was cut from, with two transfers of
\* one sender pending and with resends that arrive after a transfer was
\* finalized.
C38_ChunksStayWithTransfer == \A w \in multi.sunk : w.sink = w.src

\* C39 Hub map consistency: in every reachable state a connection has the
\* reverse-index entry (r, u) exactly when the member map of room r holds the
\* connection with user u; no connection is in two room maps (or twice in
\* one); and a step that deletes a room deletes one no connection is a member
\* of, so that no member is left in a deleted room.
HasMember(r, c, u) ==
    r \in DOMAIN rooms /\ \E i \in DOMAIN rooms[r] : rooms[r][i] = <<c, u>>
RoomsOf(c) == {r \in DOMAIN rooms : \E i \in DOMAIN rooms[r] : rooms[r][i][1] = c}
MapsAgree ==
    /\ \A c \in DOMAIN conn_info : HasMember(conn_info[c][1], c, conn_info[c][2])
    /\ \A r \in DOMAIN rooms : \A i \in DOMAIN rooms[r] :
          /\ rooms[r][i][1] \in DOMAIN conn_info
          /\ conn_info[rooms[r][i][1]] = <<r, rooms[r][i][2]>>
          /\ \A j \in DOMAIN rooms[r] : rooms[r][j][1] = rooms[r][i][1] => j = i
    /\ \A c \in Conns : Cardinality(RoomsOf(c)) <= 1
DeletesOnlyEmpty ==
    \A r \in DOMAIN rooms \ DOMAIN rooms' :
        /\ Len(rooms[r]) = 0
        /\ \A c \in DOMAIN conn_info' : conn_info'[c][1] # r
C39_HubMapConsistency == []MapsAgree /\ [][DeletesOnlyEmpty]_vars
\* a room was deleted after its member had left or had been deleted, while
\* another connection is registered
C39_Witness ==
    /\ last.op = "delete_room"
    /\ OtherRoom \notin DOMAIN rooms
    /\ DOMAIN conn_info # {}
    /\ \E c \in Conns : closed[c] /\ room[c] = OtherRoom

\* C40 Presence converges: when no handler thread is inside a join or a
\* leave, the last [SYS] USERS line each member of the room has received
\* lists exactly the users that are members of the room now.
HandlersQuiet == \A c \in Conns : pc[c] \in {"new", "loop", "done"}
ListedUsers(c) == {presence.got[c].parts[i] : i \in DOMAIN presence.got[c].parts}
C40_PresenceConverges ==
    HandlersQuiet =>
        \A c \in DOMAIN conn_info :
            /\ presence.got[c].any
            /\ ListedUsers(c) = UserSet(HubState, conn_info[c][1])

====
